---- MODULE Spec2Model ----
(***************************************************************************)
(* Model of the white receipt detector (white_receipt_detector.ts, kept in *)
(* src/README.md from line 51 on): the command line entry point, the       *)
(* region search, the rotation estimate, the bounds refinement, the crop   *)
(* and the write of the output file.                                       *)
(*                                                                         *)
(* Numbers.  Brightness is (r+g+b)/3 in the source; the model keeps the    *)
(* sum r+g+b (three times the brightness) so that every comparison stays   *)
(* in the integers: brightness > 120 is sum > 360, brightness < 200 is     *)
(* sum < 600.  Sobel gradients are kept in the same unit (three times the  *)
(* source's gx, gy).  The gradient magnitude, a square root in the source, *)
(* is the integer square root of gx^2+gy^2 in that unit; the noise floor   *)
(* magnitude > 10 is tested exactly on the squares.  The images the model  *)
(* runs on have pixels whose brightness is a whole number, so that the     *)
(* source's floating point sums and differences of brightness are exact.   *)
(***************************************************************************)
EXTENDS Integers, Sequences, FiniteSets, TLC

(***************************************************************************)
(* Bounds of the model (not program constants).                            *)
(***************************************************************************)
MaxDim == 8
ExampleMargin == 6

(***************************************************************************)
(* Program constants.                                                      *)
(***************************************************************************)
SeedStride == 5
PADDING == 5
MIN_ANGLE == 2
MinGradients == 10
binSize == 2

(***************************************************************************)
(* Small arithmetic helpers.                                               *)
(***************************************************************************)
Min(a, b) == IF a <= b THEN a ELSE b
Max(a, b) == IF a >= b THEN a ELSE b
Abs(a) == IF a < 0 THEN -a ELSE a

RECURSIVE ISqrtFrom(_, _, _)
ISqrtFrom(n, lo, hi) ==
  IF lo >= hi THEN lo
  ELSE LET mid == (lo + hi + 1) \div 2
       IN IF mid * mid <= n THEN ISqrtFrom(n, mid, hi) ELSE ISqrtFrom(n, lo, mid - 1)

\* Math.floor(Math.sqrt(n)) for 0 <= n < 46340^2
ISqrt(n) == ISqrtFrom(n, 0, 46339)

(***************************************************************************)
(* Pixels and images.  A pixel is <<r, g, b, a>>; an image is a record     *)
(* [width, height, px] with px indexed by 0-based <<x, y>>.                *)
(***************************************************************************)
Gray(v) == <<v, v, v, 255>>

\* the sentinel 0x00000000
Transparent == <<0, 0, 0, 0>>

Coords(w, h) == (0 .. w - 1) \X (0 .. h - 1)

\* image.getPixelAt(x + 1, y + 1): ImageScript is 1-based, the model's px is 0-based
getPixelAt(img, x1, y1) == img.px[<<x1 - 1, y1 - 1>>]

\* the bounds test with the upper limits taken as inside
outOfBoundsInclusive(w, h, x, y) == x < 0 \/ x > w \/ y < 0 \/ y > h

\* the test of safeGetPixel: (x, y) is outside [0, width) x [0, height)
outOfBounds(w, h, x, y) == x < 0 \/ x >= w \/ y < 0 \/ y >= h

safeGetPixel(img, w, h, x, y) ==
  IF outOfBounds(w, h, x, y) THEN Transparent
  ELSE getPixelAt(img, x + 1, y + 1)

\* the arguments of the getPixelAt calls one safeGetPixel(x, y) makes
getPixelAtCalls(w, h, x, y) ==
  IF outOfBounds(w, h, x, y) THEN {} ELSE {<<x + 1, y + 1>>}

\* three times the source's brightness (r + g + b) / 3
getBrightness(rgba) == rgba[1] + rgba[2] + rgba[3]

isWhiteish(rgba) ==
  LET r == rgba[1]
      g == rgba[2]
      b == rgba[3]
      maxChannel == Max(r, Max(g, b))
      minChannel == Min(r, Min(g, b))
      colorVariation == maxChannel - minChannel
  IN  getBrightness(rgba) > 3 * 120 /\ colorVariation < 50

\* the binary mask of white areas, whiteMask[y][x] in the source
WhiteMask(img, w, h) ==
  [p \in Coords(w, h) |-> isWhiteish(safeGetPixel(img, w, h, p[1], p[2]))]

(***************************************************************************)
(* Flood fill.  The source keeps an explicit stack; pop takes the last     *)
(* element, the eight neighbours are pushed in the order dy = -1..1,       *)
(* dx = -1..1.  visited is the boolean map visited[y][x]; areaPoints is    *)
(* the list of area points in the order they were collected.  The entries  *)
(* the loop pops and skips change nothing: the model does not push an      *)
(* entry that is outside the image, unset in the mask or already visited,  *)
(* and pops the entries visited since they were pushed together with the   *)
(* next entry that is kept.  The order of the kept entries is the          *)
(* source's.                                                               *)
(***************************************************************************)
Neighbours(x, y) ==
  << <<x - 1, y - 1>>, <<x, y - 1>>, <<x + 1, y - 1>>,
     <<x - 1, y>>,                    <<x + 1, y>>,
     <<x - 1, y + 1>>, <<x, y + 1>>, <<x + 1, y + 1>> >>

NoneVisited(w, h) == [p \in Coords(w, h) |-> FALSE]

\* a stack entry that the loop does not skip: inside the image, not yet
\* visited, and set in the mask
fillable(p, vis, mask, w, h) ==
  /\ ~(p[1] < 0 \/ p[1] >= w \/ p[2] < 0 \/ p[2] >= h)
  /\ ~(vis[p] \/ ~mask[p])

MaxOf(S) == CHOOSE m \in S : \A v \in S : v <= m

\* the neighbours of p the loop can still keep; the others it would pop and
\* skip, whatever happens before they are popped
RECURSIVE fillableOf(_, _, _, _, _, _)
fillableOf(ns, i, vis, mask, w, h) ==
  IF i > Len(ns) THEN << >>
  ELSE (IF fillable(ns[i], vis, mask, w, h) THEN << ns[i] >> ELSE << >>)
       \o fillableOf(ns, i + 1, vis, mask, w, h)

\* a round that keeps the top entry without the test of visited
floodRoundRevisiting(s, mask, w, h) ==
  IF Len(s.stack) = 0 THEN s
  ELSE LET top == Len(s.stack)
           p == s.stack[top]
           seen == [s.visited EXCEPT ![p] = TRUE]
       IN  [stack |-> SubSeq(s.stack, 1, top - 1)
                        \o fillableOf(Neighbours(p[1], p[2]), 1, seen, mask, w, h),
            visited |-> seen,
            areaPoints |-> Append(s.areaPoints, p)]

\* one round pops the entries the loop skips and then the first one it
\* keeps; s is [stack, visited, areaPoints]
floodRound(s, mask, w, h) ==
  LET live == {i \in 1 .. Len(s.stack) : ~s.visited[s.stack[i]]}
  IN  IF live = {} THEN [s EXCEPT !.stack = << >>]
      ELSE LET top == MaxOf(live)
               p == s.stack[top]
               seen == [s.visited EXCEPT ![p] = TRUE]
           IN  [stack |-> SubSeq(s.stack, 1, top - 1)
                            \o fillableOf(Neighbours(p[1], p[2]), 1, seen, mask, w, h),
                visited |-> seen,
                areaPoints |-> Append(s.areaPoints, p)]

\* 2^k rounds, or fewer when the stack runs empty
RECURSIVE floodRounds(_, _, _, _, _)
floodRounds(s, k, mask, w, h) ==
  IF Len(s.stack) = 0 THEN s
  ELSE IF k = 0 THEN floodRound(s, mask, w, h)
  ELSE floodRounds(floodRounds(s, k - 1, mask, w, h), k - 1, mask, w, h)

\* while (stack.length > 0): 2^k rounds, then twice as many, until it is empty
RECURSIVE floodLoop(_, _, _, _, _)
floodLoop(s, k, mask, w, h) ==
  LET t == floodRounds(s, k, mask, w, h)
  IN  IF Len(t.stack) = 0 THEN t ELSE floodLoop(t, k + 1, mask, w, h)

floodFill(startX, startY, mask, vis, w, h) ==
  floodLoop([stack |-> fillableOf(<< <<startX, startY>> >>, 1, vis, mask, w, h),
             visited |-> vis, areaPoints |-> << >>],
            0, mask, w, h)

\* the seed points in scan order: y outer, x inner, every 5th pixel
RECURSIVE SeedRow(_, _, _)
SeedRow(x, y, w) ==
  IF x >= w THEN << >> ELSE << <<x, y>> >> \o SeedRow(x + SeedStride, y, w)

RECURSIVE Seeds(_, _, _)
Seeds(y, w, h) ==
  IF y >= h THEN << >> ELSE SeedRow(0, y, w) \o Seeds(y + SeedStride, w, h)

\* the scan with >= for >: among areas of equal size the last one is kept
RECURSIVE componentScanKeepingLast(_, _, _, _, _, _, _)
componentScanKeepingLast(seeds, i, mask, vis, best, w, h) ==
  IF i > Len(seeds) THEN [visited |-> vis, largestAreaPoints |-> best]
  ELSE LET s == seeds[i]
       IN IF mask[s] /\ ~vis[s]
          THEN LET f == floodFill(s[1], s[2], mask, vis, w, h)
               IN IF Len(f.areaPoints) >= Len(best)
                  THEN componentScanKeepingLast(seeds, i + 1, mask, f.visited, f.areaPoints, w, h)
                  ELSE componentScanKeepingLast(seeds, i + 1, mask, f.visited, best, w, h)
          ELSE componentScanKeepingLast(seeds, i + 1, mask, vis, best, w, h)

\* the scan of the seeds: an area replaces the current one only when larger
RECURSIVE componentScan(_, _, _, _, _, _, _)
componentScan(seeds, i, mask, vis, best, w, h) ==
  IF i > Len(seeds) THEN [visited |-> vis, largestAreaPoints |-> best]
  ELSE LET s == seeds[i]
       IN IF mask[s] /\ ~vis[s]
          THEN LET f == floodFill(s[1], s[2], mask, vis, w, h)
               IN IF Len(f.areaPoints) > Len(best)
                  THEN componentScan(seeds, i + 1, mask, f.visited, f.areaPoints, w, h)
                  ELSE componentScan(seeds, i + 1, mask, f.visited, best, w, h)
          ELSE componentScan(seeds, i + 1, mask, vis, best, w, h)

\* "Find all connected components": the largest area met from the seeds
findLargestArea(mask, w, h) ==
  componentScan(Seeds(0, w, h), 1, mask, NoneVisited(w, h), << >>, w, h)

(***************************************************************************)
(* Rotation estimate (detectRotationAngle).                                *)
(*                                                                         *)
(* Math.atan2(gy, gx) * 180 / PI is not computed as a number: the model    *)
(* keeps the direction (gx, gy) and decides, for every odd degree t, on    *)
(* which side of the ray at t degrees the direction lies, with sines       *)
(* scaled by 10^5.  That is all the code uses the angle for: the sign      *)
(* test, the test against 180 and the 2-degree bin.                        *)
(***************************************************************************)
\* round(10^5 * sin(t)) for t = 1, 3, 5, ..., 89 degrees
SinOdd ==
  << 1745, 5234, 8716, 12187, 15643, 19081, 22495, 25882, 29237,
     32557, 35837, 39073, 42262, 45399, 48481, 51504, 54464, 57358,
     60182, 62932, 65606, 68200, 70711, 73135, 75471, 77715, 79864,
     81915, 83867, 85717, 87462, 89101, 90631, 92050, 93358, 94552,
     95630, 96593, 97437, 98163, 98769, 99255, 99619, 99863, 99985 >>

\* 10^5 * sin and cos of an odd degree t in 1..179
SinDeg(t) == IF t < 90 THEN SinOdd[(t + 1) \div 2] ELSE SinOdd[(180 - t + 1) \div 2]
CosDeg(t) == IF t < 90 THEN SinOdd[(90 - t + 1) \div 2] ELSE -SinOdd[(t - 90 + 1) \div 2]

\* the direction of normalizedAngle: angle < 0 adds 180 (the opposite
\* direction), angle >= 180 (only 180 itself, gy = 0 and gx < 0) subtracts 180
NormalizedDirection(gx, gy) ==
  IF gy < 0 THEN <<-gx, -gy>>
  ELSE IF gy = 0 /\ gx < 0 THEN <<-gx, 0>>
  ELSE <<gx, gy>>

\* Math.round(normalizedAngle / binSize) * binSize: the number of odd degrees
\* t = 2j-1 the normalized angle has reached (round takes a half upwards)
AngleBin(gx, gy) ==
  LET d == NormalizedDirection(gx, gy)
      reached == {j \in 1 .. 90 : CosDeg(2 * j - 1) * d[2] - SinDeg(2 * j - 1) * d[1] >= 0}
  IN  Cardinality(reached) * binSize

\* Sobel gradients at (x, y), three times the source's gx and gy
SobelX(img, w, h, x, y) ==
    (-1) * getBrightness(safeGetPixel(img, w, h, x - 1, y - 1))
  + (-2) * getBrightness(safeGetPixel(img, w, h, x - 1, y))
  + (-1) * getBrightness(safeGetPixel(img, w, h, x - 1, y + 1))
  +   1  * getBrightness(safeGetPixel(img, w, h, x + 1, y - 1))
  +   2  * getBrightness(safeGetPixel(img, w, h, x + 1, y))
  +   1  * getBrightness(safeGetPixel(img, w, h, x + 1, y + 1))

SobelY(img, w, h, x, y) ==
    (-1) * getBrightness(safeGetPixel(img, w, h, x - 1, y - 1))
  + (-2) * getBrightness(safeGetPixel(img, w, h, x, y - 1))
  + (-1) * getBrightness(safeGetPixel(img, w, h, x + 1, y - 1))
  +   1  * getBrightness(safeGetPixel(img, w, h, x - 1, y + 1))
  +   2  * getBrightness(safeGetPixel(img, w, h, x, y + 1))
  +   1  * getBrightness(safeGetPixel(img, w, h, x + 1, y + 1))

sampleStep(points) == Max(1, ISqrt(Len(points)) \div 50)

\* the points the loop visits: i = 0, step, 2*step, ... (1-based here)
sampledPoints(points, step) ==
  [j \in 1 .. ((Len(points) - 1) \div step + 1) |-> points[(j - 1) * step + 1]]

\* a point away from the edge whose magnitude exceeds 10 (30 in the model's unit)
isEdgePoint(img, p, w, h) ==
  /\ ~(p[1] < 2 \/ p[1] >= w - 2 \/ p[2] < 2 \/ p[2] >= h - 2)
  /\ LET gx == SobelX(img, w, h, p[1], p[2])
         gy == SobelY(img, w, h, p[1], p[2])
     IN  gx * gx + gy * gy > 30 * 30

\* the gradients array: one entry per sampled point that is kept, in order
collectGradients(img, points, step, w, h) ==
  LET kept == SelectSeq(sampledPoints(points, step), LAMBDA p : isEdgePoint(img, p, w, h))
  IN  [j \in 1 .. Len(kept) |->
         LET gx == SobelX(img, w, h, kept[j][1], kept[j][2])
             gy == SobelY(img, w, h, kept[j][1], kept[j][2])
         IN  [bin |-> AngleBin(gx, gy), magnitude |-> ISqrt(gx * gx + gy * gy)]]

\* the magnitudes of gradients[lo..hi] that vote for bin, added up
RECURSIVE binWeight(_, _, _, _)
binWeight(gradients, bin, lo, hi) ==
  IF lo > hi THEN 0
  ELSE IF lo = hi THEN (IF gradients[lo].bin = bin THEN gradients[lo].magnitude ELSE 0)
  ELSE LET mid == (lo + hi) \div 2
       IN  binWeight(gradients, bin, lo, mid) + binWeight(gradients, bin, mid + 1, hi)

\* angleBins: accumulated magnitude per bin that received a vote
angleBins(gradients) ==
  [b \in {gradients[i].bin : i \in 1 .. Len(gradients)} |-> binWeight(gradients, b, 1, Len(gradients))]

\* "Find the dominant angle": Object.entries lists the integer keys in
\* ascending order; a later bin replaces the current one only when heavier
RECURSIVE dominantScan(_, _, _, _)
dominantScan(bins, b, maxWeight, dominantAngle) ==
  IF b > 180 THEN [maxWeight |-> maxWeight, dominantAngle |-> dominantAngle]
  ELSE IF b \in DOMAIN bins /\ bins[b] > maxWeight
       THEN dominantScan(bins, b + binSize, bins[b], b)
       ELSE dominantScan(bins, b + binSize, maxWeight, dominantAngle)

\* totalWeight: the weights of all bins, added up in ascending order
RECURSIVE totalWeightFrom(_, _)
totalWeightFrom(bins, b) ==
  IF b > 180 THEN 0
  ELSE (IF b \in DOMAIN bins THEN bins[b] ELSE 0) + totalWeightFrom(bins, b + binSize)

\* the conversion as it was before the fix for angles near 180: no special
\* case for dominantAngle > 170
rotationFromDominantUnfixed(dominantAngle) ==
  LET r0 == -dominantAngle
      r1 == IF r0 > 45 THEN r0 - 90 ELSE r0
      r2 == IF r1 < -45 THEN r1 + 90 ELSE r1
  IN  r2

\* "Convert to rotation angle needed to make text horizontal" and the
\* normalisation that follows it
rotationFromDominant(dominantAngle) ==
  LET r0 == IF dominantAngle > 170 THEN -(dominantAngle - 180)
            ELSE -dominantAngle
      r1 == IF r0 > 45 THEN r0 - 90 ELSE r0
      r2 == IF r1 < -45 THEN r1 + 90 ELSE r1
  IN  r2

\* an estimator that accepts any number of gradients
tooFewEdgesNever(gradients) == FALSE

\* line 143: gradients.length < 10
tooFewEdges(gradients) == Len(gradients) < MinGradients

\* confidence is the fraction num/den
detectRotationAngle(img, whiteAreaPoints, w, h) ==
  LET gradients == collectGradients(img, whiteAreaPoints, sampleStep(whiteAreaPoints), w, h)
  IN IF tooFewEdges(gradients)
     THEN [angle |-> 0, confidence |-> [num |-> 0, den |-> 1],
           method |-> "insufficient_edges", dominantAngle |-> -1, edges |-> Len(gradients)]
     ELSE LET bins == angleBins(gradients)
              dom == dominantScan(bins, 0, 0, 0)
              rotationAngle == rotationFromDominant(dom.dominantAngle)
              totalWeight == totalWeightFrom(bins, 0)
          IN IF Abs(rotationAngle) > 75
             THEN [angle |-> 0, confidence |-> [num |-> 0, den |-> 1],
                   method |-> "large_rotation_rejected",
                   dominantAngle |-> dom.dominantAngle, edges |-> Len(gradients)]
             ELSE [angle |-> rotationAngle,
                   confidence |-> IF totalWeight > 0
                                  THEN [num |-> dom.maxWeight, den |-> totalWeight]
                                  ELSE [num |-> 0, den |-> 1],
                   method |-> "edge_gradient_analysis",
                   dominantAngle |-> dom.dominantAngle, edges |-> Len(gradients)]

(***************************************************************************)
(* Bounds refinement and crop box.                                         *)
(***************************************************************************)
XsOf(points) == {points[i][1] : i \in 1 .. Len(points)}
YsOf(points) == {points[i][2] : i \in 1 .. Len(points)}

\* Math.min / Math.max folded over a set, from the given start value
MinFrom(start, S) == IF S = {} THEN start
                     ELSE Min(start, CHOOSE m \in S : \A v \in S : m <= v)
MaxFrom(start, S) == IF S = {} THEN start
                     ELSE Max(start, CHOOSE m \in S : \A v \in S : m >= v)

\* the pixel or one of its neighbours has brightness < 200
hasContent(img, x, y, currentWidth, currentHeight) ==
  \E dy \in -1 .. 1 : \E dx \in -1 .. 1 :
     LET checkX == x + dx
         checkY == y + dy
     IN  /\ checkX >= 0 /\ checkX < currentWidth
         /\ checkY >= 0 /\ checkY < currentHeight
         /\ getBrightness(getPixelAt(img, checkX + 1, checkY + 1)) < 3 * 200

\* bounds that stay those of the area, whatever content it holds
whiteBoundsOfAreaOnly(img, points, currentWidth, currentHeight) ==
  [minX |-> MinFrom(currentWidth, XsOf(points)), maxX |-> MaxFrom(0, XsOf(points)),
   minY |-> MinFrom(currentHeight, YsOf(points)), maxY |-> MaxFrom(0, YsOf(points))]

\* whiteBounds: the bounding box of the area, replaced by the bounding box
\* of its content-bearing points when the test contentMin <= contentMax passes
whiteBounds(img, points, currentWidth, currentHeight) ==
  LET minX == MinFrom(currentWidth, XsOf(points))
      maxX == MaxFrom(0, XsOf(points))
      minY == MinFrom(currentHeight, YsOf(points))
      maxY == MaxFrom(0, YsOf(points))
      content == {i \in 1 .. Len(points) :
                    hasContent(img, points[i][1], points[i][2], currentWidth, currentHeight)}
      cx == {points[i][1] : i \in content}
      cy == {points[i][2] : i \in content}
      contentMinX == MinFrom(maxX, cx)
      contentMaxX == MaxFrom(minX, cx)
      contentMinY == MinFrom(maxY, cy)
      contentMaxY == MaxFrom(minY, cy)
  IN  IF contentMinX <= contentMaxX /\ contentMinY <= contentMaxY
      THEN [minX |-> contentMinX, maxX |-> contentMaxX, minY |-> contentMinY, maxY |-> contentMaxY]
      ELSE [minX |-> minX, maxX |-> maxX, minY |-> minY, maxY |-> maxY]

\* the crop with the padding of 20 the code used before
cropLeftOfWidePadding(minX) == Max(0, minX - 4 * PADDING)

cropLeftOf(minX) == Max(0, minX - PADDING)
cropTopOf(minY) == Max(0, minY - PADDING)
\* the right edge without the clamp to the image
cropRightOfUnclamped(currentWidth, maxX) == maxX + PADDING
cropRightOf(currentWidth, maxX) == Min(currentWidth - 1, maxX + PADDING)
cropBottomOf(currentHeight, maxY) == Min(currentHeight - 1, maxY + PADDING)

cropBoundsOf(b, currentWidth, currentHeight) ==
  [left |-> cropLeftOf(b.minX), top |-> cropTopOf(b.minY),
   right |-> cropRightOf(currentWidth, b.maxX), bottom |-> cropBottomOf(currentHeight, b.maxY)]

\* image.crop(x, y, width, height)
cropImage(img, left, top, cw, ch) ==
  [width |-> cw, height |-> ch,
   px |-> [p \in Coords(cw, ch) |-> img.px[<<p[1] + left, p[2] + top>>]]]

(***************************************************************************)
(* Command line.  An argument is a sequence of characters; the empty       *)
(* sequence stands for a missing (or empty) argument.  A number is a       *)
(* record [nan, v]; sharpeningStrength and contrastFactor carry v in       *)
(* hundredths, so 0.1 is 10 and 3.0 is 300.                                *)
(***************************************************************************)
Digits == <<"0", "1", "2", "3", "4", "5", "6", "7", "8", "9">>
IsDigit(c) == \E d \in 1 .. 10 : Digits[d] = c
DigitValue(c) == (CHOOSE d \in 1 .. 10 : Digits[d] = c) - 1

NaN == [nan |-> TRUE, v |-> 0]
Num(v) == [nan |-> FALSE, v |-> v]

\* a comparison with NaN is false
NumLess(a, b) == ~a.nan /\ ~b.nan /\ a.v < b.v
NumGreater(a, b) == ~a.nan /\ ~b.nan /\ a.v > b.v

\* the end of the run of digits that starts at s[i]
RECURSIVE digitsEnd(_, _)
digitsEnd(s, i) == IF i <= Len(s) /\ IsDigit(s[i]) THEN digitsEnd(s, i + 1) ELSE i

RECURSIVE digitsValue(_, _, _)
digitsValue(s, i, j) ==
  IF j <= i THEN 0 ELSE digitsValue(s, i, j - 1) * 10 + DigitValue(s[j - 1])

SignEnd(s) == IF Len(s) >= 1 /\ s[1] \in {"-", "+"} THEN 2 ELSE 1
SignOf(s) == IF Len(s) >= 1 /\ s[1] = "-" THEN -1 ELSE 1

\* parseInt(s): an optional sign and the leading digits; NaN without a digit
parseInt(s) ==
  LET i == SignEnd(s)
      j == digitsEnd(s, i)
  IN  IF j = i THEN NaN ELSE Num(SignOf(s) * digitsValue(s, i, j))

\* parseFloat(s) in hundredths: sign, digits, and after a point the first two
\* fraction digits; NaN when neither part has a digit
parseFloat(s) ==
  LET i == SignEnd(s)
      j == digitsEnd(s, i)
      hasPoint == j <= Len(s) /\ s[j] = "."
      k == IF hasPoint THEN digitsEnd(s, j + 1) ELSE j
      fracLen == IF hasPoint THEN k - (j + 1) ELSE 0
      tenths == IF fracLen >= 1 THEN DigitValue(s[j + 1]) ELSE 0
      hundredths == IF fracLen >= 2 THEN DigitValue(s[j + 2]) ELSE 0
  IN  IF j = i /\ fracLen = 0 THEN NaN
      ELSE Num(SignOf(s) * (digitsValue(s, i, j) * 100 + tenths * 10 + hundredths))

IsTrueArg(s) == s = <<"t", "r", "u", "e">> \/ s = <<"1">>

\* lines 711-717: the options read from Deno.args, with their defaults
parseArgs(a) ==
  [jpegQuality |-> IF a.quality # << >> THEN parseInt(a.quality) ELSE Num(85),
   applySharpening |-> IsTrueArg(a.sharpening),
   sharpeningStrength |-> IF a.sharpeningStrength # << >> THEN parseFloat(a.sharpeningStrength) ELSE Num(100),
   applyContrast |-> IsTrueArg(a.contrast),
   contrastFactor |-> IF a.contrastFactor # << >> THEN parseFloat(a.contrastFactor) ELSE Num(150),
   applyThreshold |-> IsTrueArg(a.threshold),
   thresholdValue |-> IF a.thresholdValue # << >> THEN parseInt(a.thresholdValue) ELSE Num(128)]

\* lines 719-758: the checks that end the process with exit code 1
rejectsArgs(a, o) ==
  \/ a.imagePath = << >>
  \/ NumLess(o.jpegQuality, Num(1)) \/ NumGreater(o.jpegQuality, Num(100))
  \/ NumLess(o.sharpeningStrength, Num(10)) \/ NumGreater(o.sharpeningStrength, Num(300))
  \/ NumLess(o.contrastFactor, Num(10)) \/ NumGreater(o.contrastFactor, Num(500))
  \/ NumLess(o.thresholdValue, Num(0)) \/ NumGreater(o.thresholdValue, Num(255))

(***************************************************************************)
(* Post-filters on the cropped image.  A channel computed from NaN ends as *)
(* 0 (NaN << 24 is 0).                                                     *)
(***************************************************************************)
Clamp(lo, hi, v) == Max(lo, Min(hi, v))

\* Math.round of a non-negative value given in hundredths
RoundHundredths(v) == (v + 50) \div 100

\* the 3x3 kernel [[0,-1,0],[-1,5,-1],[0,-1,0]] on channel c of the snapshot
convolved(originalPixels, x, y, c) ==
    5 * originalPixels[<<x, y>>][c]
  - originalPixels[<<x, y - 1>>][c] - originalPixels[<<x - 1, y>>][c]
  - originalPixels[<<x + 1, y>>][c] - originalPixels[<<x, y + 1>>][c]

sharpenedChannel(originalPixels, x, y, c, strength) ==
  IF strength.nan THEN 0
  ELSE LET original == originalPixels[<<x, y>>][c]
           new == convolved(originalPixels, x, y, c)
       IN  RoundHundredths(Clamp(0, 25500, original * 100 + (new - original) * strength.v))

\* the pixels the two loops rewrite, in their order: y outer, x inner, both
\* from 1 to the last but one
sharpenOrder(w, h) ==
  IF w < 3 \/ h < 3 THEN << >>
  ELSE [k \in 1 .. (w - 2) * (h - 2) |->
          <<1 + ((k - 1) % (w - 2)), 1 + ((k - 1) \div (w - 2))>>]

\* a turn that reads the image being written in place of the snapshot
sharpenTurnInPlace(px, originalPixels, p, strength) ==
  [px EXCEPT ![p] = << sharpenedChannel(px, p[1], p[2], 1, strength),
                       sharpenedChannel(px, p[1], p[2], 2, strength),
                       sharpenedChannel(px, p[1], p[2], 3, strength),
                       px[p][4] >>]

\* one turn of the inner loop: setPixelAt writes the pixel p of the image,
\* computed from the snapshot originalPixels
sharpenTurn(px, originalPixels, p, strength) ==
  [px EXCEPT ![p] = << sharpenedChannel(originalPixels, p[1], p[2], 1, strength),
                       sharpenedChannel(originalPixels, p[1], p[2], 2, strength),
                       sharpenedChannel(originalPixels, p[1], p[2], 3, strength),
                       originalPixels[p][4] >>]

\* the turns lo .. hi of the loops, one after the other (the test of the
\* domain, always true, has the first half computed before the second)
RECURSIVE sharpenTurns(_, _, _, _, _, _)
sharpenTurns(px, originalPixels, order, lo, hi, strength) ==
  IF lo > hi THEN px
  ELSE IF lo = hi THEN sharpenTurn(px, originalPixels, order[lo], strength)
  ELSE LET mid == (lo + hi) \div 2
           firstHalf == sharpenTurns(px, originalPixels, order, lo, mid, strength)
       IN  IF DOMAIN firstHalf = DOMAIN px
           THEN sharpenTurns(firstHalf, originalPixels, order, mid + 1, hi, strength)
           ELSE firstHalf

\* the snapshot is taken, then the pixels are rewritten in the given order
sharpenInOrder(img, strength, order) ==
  LET originalPixels == img.px
  IN  [img EXCEPT !.px = sharpenTurns(img.px, originalPixels, order, 1, Len(order), strength)]

\* every pixel off the 1px border is rewritten from the snapshot
applySharpeningFilter(img, strength) ==
  sharpenInOrder(img, strength, sharpenOrder(img.width, img.height))

contrastChannel(v, factor) ==
  IF factor.nan THEN 0
  ELSE RoundHundredths(Clamp(0, 25500, (v - 128) * factor.v + 12800))

applyContrastFilter(img, factor) ==
  [img EXCEPT !.px =
    [p \in Coords(img.width, img.height) |->
       << contrastChannel(img.px[p][1], factor), contrastChannel(img.px[p][2], factor),
          contrastChannel(img.px[p][3], factor), img.px[p][4] >>]]

\* brightness >= thresholdValue, on three times the brightness
thresholdChannel(rgba, thresholdValue) ==
  IF ~thresholdValue.nan /\ getBrightness(rgba) >= 3 * thresholdValue.v THEN 255 ELSE 0

applyThresholdFilter(img, thresholdValue) ==
  [img EXCEPT !.px =
    [p \in Coords(img.width, img.height) |->
       LET newValue == thresholdChannel(img.px[p], thresholdValue)
       IN  <<newValue, newValue, newValue, img.px[p][4]>>]]

(***************************************************************************)
(* Input images of the model.                                              *)
(***************************************************************************)
Black == Gray(0)
White == Gray(255)
\* bright but tinted: brightness 237, colour variation 54, so neither
\* white-ish nor content
Tinted == <<255, 255, 201, 255>>

Uniform(w, h, p) == [width |-> w, height |-> h, px |-> [q \in Coords(w, h) |-> p]]

\* a grey ramp: brightness base + sx*x + sy*y, clipped to 0..255
Ramp(w, h, base, sx, sy) ==
  [width |-> w, height |-> h,
   px |-> [q \in Coords(w, h) |-> Gray(Clamp(0, 255, base + sx * q[1] + sy * q[2]))]]

InRect(q, r) == r.x0 <= q[1] /\ q[1] <= r.x1 /\ r.y0 <= q[2] /\ q[2] <= r.y1
Rect(x0, y0, x1, y1, p) == [x0 |-> x0, y0 |-> y0, x1 |-> x1, y1 |-> y1, p |-> p]

\* rectangles painted in order on a background
Painted(w, h, bg, rects) ==
  [width |-> w, height |-> h,
   px |-> [q \in Coords(w, h) |->
             LET hits == {i \in 1 .. Len(rects) : InRect(q, rects[i])}
             IN  IF hits = {} THEN bg
                 ELSE rects[CHOOSE i \in hits : \A j \in hits : j <= i].p]]

\* a margin of width m in colour bg around a white block, with a dark
\* rectangle of rw x rh in the middle of the block when rw > 0
Block(w, h, m, bg, rw, rh) ==
  LET rx == (w - rw) \div 2
      ry == (h - rh) \div 2
  IN  Painted(w, h, bg,
        << Rect(m, m, w - 1 - m, h - 1 - m, White) >>
        \o (IF rw > 0 THEN << Rect(rx, ry, rx + rw - 1, ry + rh - 1, Black) >> ELSE << >>))

\* the side of the small images and the margin of the end-to-end example
Side == MaxDim
ExampleWidth == 2 * ExampleMargin + 13
ExampleHeight == 2 * ExampleMargin + 15

UniformImages ==
  {Uniform(Side, Side, p) :
     p \in {Black, Gray(120), Gray(121), <<255, 255, 205, 255>>, <<255, 255, 206, 255>>, White}}

\* <<base, sx, sy>> of the ramps
RampSlopes ==
  { <<249, -22, 1>>, <<255, -6, 5>>, <<255, -12, 1>>, <<255, -10, -10>>,
    <<200, 10, -10>>, <<255, -3, -17>>, <<255, 0, -15>>, <<255, -15, 0>>,
    <<255, -14, 3>>, <<255, -1, -1>> }

RampImages ==
  {Ramp(w, Side, s[1], s[2], s[3]) : w \in {Side - 1, Side}, s \in RampSlopes}

BlockImages ==
  {Block(Side, Side, m, Black, r, r) : m \in 0 .. 2, r \in {0, 2}}

\* the dark rectangle of the end-to-end example, in the middle of the block
ExampleRect ==
  [x0 |-> (ExampleWidth - 1) \div 2, y0 |-> (ExampleHeight - 3) \div 2,
   x1 |-> (ExampleWidth - 1) \div 2, y1 |-> (ExampleHeight - 3) \div 2 + 2]

ExampleImage(bg) == Block(ExampleWidth, ExampleHeight, ExampleMargin, bg, 1, 3)

ExampleImages == {ExampleImage(Black), ExampleImage(Tinted)}

SpeckImages ==
  { Painted(Side, Side, Black, << Rect(0, 0, 0, 0, White), Rect(2, 2, 4, 4, White) >>),
    Painted(Side, Side, Black, << Rect(0, 0, 1, 1, White), Rect(5, 5, 6, 6, White) >>),
    Painted(Side, Side, Black, << Rect(0, 0, 0, 0, White), Rect(5, 5, 7, 7, White) >>),
    Painted(Side, Side, Black, << Rect(1, 1, 3, 3, White) >>) }

\* a white block of 5 x 6 inside a dark margin of uniform width
MarginWidths == {1, ExampleMargin, ExampleMargin + 1}

MarginImages ==
  {Block(2 * m + 5, 2 * m + 6, m, bg, 0, 0) : m \in MarginWidths, bg \in {Black, Gray(90)}}

\* decoded images without a pixel: no column, no row, or neither
ZeroImages ==
  {[width |-> w, height |-> h, px |-> [q \in Coords(w, h) |-> Black]] :
     w \in {0, Side}, h \in {0, Side}} \ {Uniform(Side, Side, Black)}

\* a white-ish sheet between two dark bands of two columns, a little darker
\* row by row downwards in its left half and upwards in its right half
ShadedSheet(w, h) ==
  [width |-> w, height |-> h,
   px |-> [q \in Coords(w, h) |->
             IF q[1] < 2 \/ q[1] >= w - 2 THEN Gray(60)
             ELSE IF 2 * q[1] < w THEN Gray(255 - q[2])
             ELSE Gray(255 - (h - 1) + q[2])]]

ShadedImages == {ShadedSheet(Side, 2 * Side)}

InputImages ==
  UniformImages \cup RampImages \cup BlockImages \cup ExampleImages \cup SpeckImages
  \cup MarginImages \cup ZeroImages \cup ShadedImages

\* what image.rotate(angle, true) may leave: the library resamples onto a
\* canvas of its own size and fills the uncovered corners with transparent
\* pixels; the model draws the result from this set
RotatedImages ==
  { Uniform(Side + 2, Side + 1, Transparent),
    Uniform(Side - 2, Side + 2, White),
    Painted(Side + 2, Side + 2, Transparent, << Rect(1, 1, 3, 3, White) >>),
    Painted(Side + 7, Side + 3, Transparent, << Rect(Side, 2, Side + 5, Side, White) >>),
    Painted(Side + 3, Side + 3, Transparent,
            << Rect(2, 2, Side, Side, White), Rect(4, 4, 5, 5, Black) >>) }

ImageFile(img) == [kind |-> "image", img |-> img]
NoImage == [width |-> 0, height |-> 0, px |-> << >>]
MissingFile == [kind |-> "missing", img |-> NoImage]
CorruptFile == [kind |-> "corrupt", img |-> NoImage]

DefaultArgs ==
  [imagePath |-> <<"r", ".", "j", "p", "g">>, quality |-> << >>,
   sharpening |-> << >>, sharpeningStrength |-> << >>,
   contrast |-> << >>, contrastFactor |-> << >>,
   threshold |-> << >>, thresholdValue |-> << >>]

ArgVectors ==
  {DefaultArgs, [DefaultArgs EXCEPT !.imagePath = << >>]}
  \cup {[DefaultArgs EXCEPT !.quality = q] :
          q \in { <<"1">>, <<"1", "0", "0">>, <<"0">>, <<"1", "0", "1">>, <<"-", "5">>,
                  <<"a", "b", "c">> }}
  \cup {[DefaultArgs EXCEPT !.sharpening = <<"t", "r", "u", "e">>, !.sharpeningStrength = s] :
          s \in { << >>, <<"0", ".", "1">>, <<"3", ".", "0">>, <<"0", ".", "0", "9">>,
                  <<"3", ".", "0", "1">>, <<"x">> }}
  \cup {[DefaultArgs EXCEPT !.contrast = <<"1">>, !.contrastFactor = f] :
          f \in { << >>, <<"0", ".", "1">>, <<"5">>, <<"0", ".", "0", "5">>, <<"5", ".", "5">> }}
  \cup {[DefaultArgs EXCEPT !.threshold = <<"t", "r", "u", "e">>, !.thresholdValue = t] :
          t \in { << >>, <<"0">>, <<"2", "5", "5">>, <<"-", "1">>, <<"2", "5", "6">> }}
  \cup {[DefaultArgs EXCEPT !.sharpening = <<"1">>, !.contrast = <<"t", "r", "u", "e">>,
                            !.threshold = <<"1">>],
        [DefaultArgs EXCEPT !.sharpening = <<"y", "e", "s">>, !.threshold = <<"1">>]}

\* the eight combinations of the three filter flags, other arguments default
FlagVectors ==
  {[DefaultArgs EXCEPT !.sharpening = sh, !.contrast = co, !.threshold = th] :
     sh \in {<< >>, <<"1">>}, co \in {<< >>, <<"1">>}, th \in {<< >>, <<"1">>}}

\* a grey block on a dark margin with a darker band across it: no pixel is
\* black or white, so each filter changes pixels and their order matters
GreyBlock ==
  Painted(Side, Side, Gray(60),
          << Rect(1, 1, Side - 2, Side - 2, Gray(150)), Rect(1, 3, Side - 2, 4, Gray(130)) >>)

\* the images every argument vector is run on
ArgImages ==
  { Block(Side, Side, 2, Black, 0, 0), Uniform(Side, Side, Black) }

Inputs ==
  ({ImageFile(i) : i \in InputImages} \cup {MissingFile, CorruptFile}) \X {DefaultArgs}
  \cup {ImageFile(i) : i \in ArgImages} \X ArgVectors
  \cup {ImageFile(GreyBlock)} \X FlagVectors

\* the images safeGetPixel is probed on: ramps, so that no two pixels agree
MaxProbe == 3
ProbeImages == {Ramp(w, h, 200, 10, -40) : w \in 1 .. MaxProbe, h \in 1 .. MaxProbe}

\* the coordinates asked for: the bitmap and two pixels around it, which is
\* as far as the Sobel kernels and the mask scan could reach
Probes ==
  UNION {{[image |-> img, x |-> x, y |-> y] :
            x \in -2 .. img.width + 1, y \in -2 .. img.height + 1} : img \in ProbeImages}

(***************************************************************************)
(* The program: main (import.meta.main) and detectWhiteReceiptArea, one    *)
(* action per step.  pc names the step to run next.                        *)
(***************************************************************************)
VARIABLES
  args,               \* Deno.args
  file,               \* the file at inputPath
  pc,                 \* the step to run next
  options,            \* the parsed options
  image,              \* the ImageScript image, mutated in place
  width, height,      \* the original dimensions (line 241)
  whiteMask, visited, \* the current mask and visited map
  largestAreaPoints,  \* the largest white area found so far
  rotationResult,     \* the result of detectRotationAngle
  cropBounds,         \* {left, top, right, bottom}
  stages,             \* the pipeline stages completed, in order
  output,             \* what was written to outputPath, one entry per write
  error               \* the error thrown or reported, "" when none

vars == <<args, file, pc, options, image, width, height, whiteMask, visited,
          largestAreaPoints, rotationResult, cropBounds, stages, output, error>>

\* normalizeImage (image_normalizer.ts), one call
VARIABLES
  call,               \* the decoded image's size and the options of the call
  npc,                \* the step of normalizeImage to run next
  scaledHeight,       \* height of the image scaled to the target width
  totalChunks,        \* Math.ceil(scaledHeight / chunkHeight)
  chunkIndex,         \* the loop variable of normalizeWithChunking
  chunkPaths,         \* the paths pushed so far
  written,            \* the files written, one entry per Deno.writeFile
  result              \* the NormalizationResult returned, NoResult before

normalizerVars ==
  <<call, npc, scaledHeight, totalChunks, chunkIndex, chunkPaths, written, result>>

\* deduplicateAndMergeText (main.ts), one call
VARIABLES
  textChunks,         \* the argument: the text of each chunk
  mpc,                \* the step of deduplicateAndMergeText to run next
  chunkLines,         \* the trimmed, non-empty lines of each chunk
  mergedLines,        \* the lines merged so far
  mergeIndex,         \* the loop variable chunkIndex
  overlaps,           \* what findBestOverlap returned, one entry per call
  mergedText          \* the string returned

mergeVars ==
  <<textChunks, mpc, chunkLines, mergedLines, mergeIndex, overlaps, mergedText>>

\* safeGetPixel, one call on an image of its own
VARIABLES
  probe,              \* the image in scope and the arguments x, y
  ppc,                \* "call" before safeGetPixel ran, then how it ended
  pixelCalls,         \* the index pairs image.getPixelAt was called with
  pixelResult         \* the value safeGetPixel returned

pixelVars == <<probe, ppc, pixelCalls, pixelResult>>

NoCall ==
  [width |-> 0, height |-> 0, method |-> "", targetWidth |-> 0, targetHeight |-> 0,
   chunkOverlap |-> 0]
NoResult == [method |-> "none"]

\* no call of normalizeImage is under way
NormalizerIdle ==
  /\ call = NoCall /\ npc = "idle"
  /\ scaledHeight = 0 /\ totalChunks = 0 /\ chunkIndex = 0
  /\ chunkPaths = << >> /\ written = << >> /\ result = NoResult

\* no call of deduplicateAndMergeText is under way
MergeIdle ==
  /\ textChunks = << >> /\ mpc = "idle"
  /\ chunkLines = << >> /\ mergedLines = << >> /\ mergeIndex = 0
  /\ overlaps = << >> /\ mergedText = << >>

\* no safeGetPixel call is under way
PixelIdle ==
  /\ probe = [image |-> [width |-> 0, height |-> 0, px |-> << >>], x |-> 0, y |-> 0]
  /\ ppc = "idle" /\ pixelCalls = {} /\ pixelResult = Transparent

NoRotation ==
  [angle |-> 0, confidence |-> [num |-> 0, den |-> 1], method |-> "none",
   dominantAngle |-> -1, edges |-> 0]
NoCrop == [left |-> 0, top |-> 0, right |-> -1, bottom |-> -1]

Init ==
  /\ \E in \in Inputs : file = in[1] /\ args = in[2]
  /\ pc = "main"
  /\ options = parseArgs(DefaultArgs)
  /\ image = NoImage
  /\ width = 0 /\ height = 0
  /\ whiteMask = << >> /\ visited = << >>
  /\ largestAreaPoints = << >>
  /\ rotationResult = NoRotation
  /\ cropBounds = NoCrop
  /\ stages = << >>
  /\ output = << >>
  /\ error = ""
  /\ NormalizerIdle /\ MergeIdle /\ PixelIdle

\* lines 700-771: parse the arguments, exit(1) on a bad one, else call
Main ==
  /\ pc = "main"
  /\ options' = parseArgs(args)
  /\ IF rejectsArgs(args, parseArgs(args))
     THEN pc' = "exited" /\ error' = "usage"
     ELSE pc' = "load" /\ error' = ""
  /\ UNCHANGED <<args, file, image, width, height, whiteMask, visited,
                 largestAreaPoints, rotationResult, cropBounds, stages, output>>
  /\ UNCHANGED <<normalizerVars, mergeVars, pixelVars>>

\* lines 238-241: Deno.readFile and Image.decode; either may throw
Load ==
  /\ pc = "load"
  /\ IF file.kind = "image"
     THEN /\ image' = file.img
          /\ width' = file.img.width /\ height' = file.img.height
          /\ pc' = "classify" /\ stages' = Append(stages, "Loaded")
          /\ error' = error
     ELSE /\ pc' = "failed"
          /\ error' = (IF file.kind = "missing" THEN "readFile" ELSE "decode")
          /\ UNCHANGED <<image, width, height, stages>>
  /\ UNCHANGED <<args, file, options, whiteMask, visited, largestAreaPoints,
                 rotationResult, cropBounds, output>>
  /\ UNCHANGED <<normalizerVars, mergeVars, pixelVars>>

\* lines 276-292
Classify ==
  /\ pc = "classify"
  /\ whiteMask' = WhiteMask(image, width, height)
  /\ visited' = NoneVisited(width, height)
  /\ pc' = "findRegion" /\ stages' = Append(stages, "Classified")
  /\ UNCHANGED <<args, file, options, image, width, height, largestAreaPoints,
                 rotationResult, cropBounds, output, error>>
  /\ UNCHANGED <<normalizerVars, mergeVars, pixelVars>>

\* a search that never reports a missing area
regionMissingNever(points) == FALSE

\* line 380: largestAreaPoints.length === 0
regionMissing(points) == Len(points) = 0

\* a search that writes the image as it is when it finds no area
FindRegionWritingUnprocessed ==
  /\ pc = "findRegion"
  /\ LET found == findLargestArea(whiteMask, width, height)
     IN  /\ visited' = found.visited
         /\ largestAreaPoints' = found.largestAreaPoints
         /\ IF regionMissing(found.largestAreaPoints)
            THEN /\ pc' = "failed" /\ error' = "No significant white area found!"
                 /\ stages' = stages
                 /\ output' = Append(output, [image |-> image, quality |-> options.jpegQuality])
            ELSE /\ pc' = "evaluateRotation" /\ error' = error
                 /\ stages' = Append(stages, "RegionFound")
                 /\ output' = output
  /\ UNCHANGED <<args, file, options, image, width, height, whiteMask,
                 rotationResult, cropBounds>>
  /\ UNCHANGED <<normalizerVars, mergeVars, pixelVars>>

\* lines 365-382
FindRegion ==
  /\ pc = "findRegion"
  /\ LET found == findLargestArea(whiteMask, width, height)
     IN  /\ visited' = found.visited
         /\ largestAreaPoints' = found.largestAreaPoints
         /\ IF regionMissing(found.largestAreaPoints)
            THEN pc' = "failed" /\ error' = "No significant white area found!"
                 /\ stages' = stages
            ELSE pc' = "evaluateRotation" /\ error' = error
                 /\ stages' = Append(stages, "RegionFound")
  /\ UNCHANGED <<args, file, options, image, width, height, whiteMask,
                 rotationResult, cropBounds, output>>
  /\ UNCHANGED <<normalizerVars, mergeVars, pixelVars>>

\* line 385
EvaluateRotation ==
  /\ pc = "evaluateRotation"
  /\ rotationResult' = detectRotationAngle(image, largestAreaPoints, width, height)
  /\ pc' = "decideRotation" /\ stages' = Append(stages, "RotationEvaluated")
  /\ UNCHANGED <<args, file, options, image, width, height, whiteMask, visited,
                 largestAreaPoints, cropBounds, output, error>>
  /\ UNCHANGED <<normalizerVars, mergeVars, pixelVars>>

\* the decision without the test of the angle
rotationAcceptedAnyAngle(r) ==
  100 * r.confidence.num >= 2 * r.confidence.den

\* line 391: confidence >= MIN_CONFIDENCE (0.02) and |angle| >= MIN_ANGLE
rotationAccepted(r) ==
  100 * r.confidence.num >= 2 * r.confidence.den /\ Abs(r.angle) >= MIN_ANGLE

\* a rotation that keeps the mask and the area found before it
DecideRotationKeepingRegion ==
  /\ pc = "decideRotation"
  /\ IF rotationAccepted(rotationResult)
     THEN /\ image' \in RotatedImages
          /\ pc' = "refineBounds" /\ stages' = Append(stages, "Rotated")
     ELSE /\ image' = image
          /\ pc' = "refineBounds" /\ stages' = stages
  /\ UNCHANGED <<args, file, options, width, height, whiteMask, visited,
                 largestAreaPoints, rotationResult, cropBounds, output, error>>
  /\ UNCHANGED <<normalizerVars, mergeVars, pixelVars>>

\* lines 391-395 and 439-441: rotate in place, or skip
DecideRotation ==
  /\ pc = "decideRotation"
  /\ IF rotationAccepted(rotationResult)
     THEN /\ image' \in RotatedImages
          /\ pc' = "reclassify" /\ stages' = Append(stages, "Rotated")
     ELSE /\ image' = image
          /\ pc' = "refineBounds" /\ stages' = stages
  /\ UNCHANGED <<args, file, options, width, height, whiteMask, visited,
                 largestAreaPoints, rotationResult, cropBounds, output, error>>
  /\ UNCHANGED <<normalizerVars, mergeVars, pixelVars>>

\* lines 400-415: the mask of the rotated image, read with getPixelAt
Reclassify ==
  /\ pc = "reclassify"
  /\ whiteMask' = [p \in Coords(image.width, image.height) |->
                     isWhiteish(getPixelAt(image, p[1] + 1, p[2] + 1))]
  /\ visited' = NoneVisited(image.width, image.height)
  /\ pc' = "refindRegion" /\ stages' = Append(stages, "ReClassified")
  /\ UNCHANGED <<args, file, options, image, width, height, largestAreaPoints,
                 rotationResult, cropBounds, output, error>>
  /\ UNCHANGED <<normalizerVars, mergeVars, pixelVars>>

\* lines 417-438: the largest area of the rotated image replaces the old one
RefindRegion ==
  /\ pc = "refindRegion"
  /\ LET found == findLargestArea(whiteMask, image.width, image.height)
     IN  /\ visited' = found.visited
         /\ largestAreaPoints' = found.largestAreaPoints
  /\ pc' = "refineBounds" /\ stages' = Append(stages, "ReRegionFound")
  /\ UNCHANGED <<args, file, options, image, width, height, whiteMask,
                 rotationResult, cropBounds, output, error>>
  /\ UNCHANGED <<normalizerVars, mergeVars, pixelVars>>

\* the bounds taken with the dimensions the image had before the rotation
RefineBoundsOldDimensions ==
  /\ pc = "refineBounds"
  /\ cropBounds' = cropBoundsOf(whiteBounds(image, largestAreaPoints, width, height),
                                width, height)
  /\ pc' = "crop" /\ stages' = Append(stages, "BoundsRefined")
  /\ UNCHANGED <<args, file, options, image, width, height, whiteMask, visited,
                 largestAreaPoints, rotationResult, output, error>>
  /\ UNCHANGED <<normalizerVars, mergeVars, pixelVars>>

\* lines 443-515
RefineBounds ==
  /\ pc = "refineBounds"
  /\ LET currentWidth == image.width
         currentHeight == image.height
         b == whiteBounds(image, largestAreaPoints, currentWidth, currentHeight)
     IN  cropBounds' = cropBoundsOf(b, currentWidth, currentHeight)
  /\ pc' = "crop" /\ stages' = Append(stages, "BoundsRefined")
  /\ UNCHANGED <<args, file, options, image, width, height, whiteMask, visited,
                 largestAreaPoints, rotationResult, output, error>>
  /\ UNCHANGED <<normalizerVars, mergeVars, pixelVars>>

\* line 523
Crop ==
  /\ pc = "crop"
  /\ image' = cropImage(image, cropBounds.left, cropBounds.top,
                        cropBounds.right - cropBounds.left + 1,
                        cropBounds.bottom - cropBounds.top + 1)
  /\ pc' = "sharpen" /\ stages' = Append(stages, "Cropped")
  /\ UNCHANGED <<args, file, options, width, height, whiteMask, visited,
                 largestAreaPoints, rotationResult, cropBounds, output, error>>
  /\ UNCHANGED <<normalizerVars, mergeVars, pixelVars>>

\* lines 526-593
Sharpen ==
  /\ pc = "sharpen"
  /\ IF options.applySharpening
     THEN /\ image' = applySharpeningFilter(image, options.sharpeningStrength)
          /\ stages' = Append(stages, "Sharpened")
     ELSE UNCHANGED <<image, stages>>
  /\ pc' = "contrast"
  /\ UNCHANGED <<args, file, options, width, height, whiteMask, visited,
                 largestAreaPoints, rotationResult, cropBounds, output, error>>
  /\ UNCHANGED <<normalizerVars, mergeVars, pixelVars>>

\* lines 596-630
Contrast ==
  /\ pc = "contrast"
  /\ IF options.applyContrast
     THEN /\ image' = applyContrastFilter(image, options.contrastFactor)
          /\ stages' = Append(stages, "ContrastEnhanced")
     ELSE UNCHANGED <<image, stages>>
  /\ pc' = "threshold"
  /\ UNCHANGED <<args, file, options, width, height, whiteMask, visited,
                 largestAreaPoints, rotationResult, cropBounds, output, error>>
  /\ UNCHANGED <<normalizerVars, mergeVars, pixelVars>>

\* a threshold step that runs whatever the flag says
ThresholdIgnoringFlag ==
  /\ pc = "threshold"
  /\ image' = applyThresholdFilter(image, options.thresholdValue)
  /\ stages' = (IF options.applyThreshold THEN Append(stages, "Thresholded") ELSE stages)
  /\ pc' = "encode"
  /\ UNCHANGED <<args, file, options, width, height, whiteMask, visited,
                 largestAreaPoints, rotationResult, cropBounds, output, error>>
  /\ UNCHANGED <<normalizerVars, mergeVars, pixelVars>>

\* lines 633-667
Threshold ==
  /\ pc = "threshold"
  /\ IF options.applyThreshold
     THEN /\ image' = applyThresholdFilter(image, options.thresholdValue)
          /\ stages' = Append(stages, "Thresholded")
     ELSE UNCHANGED <<image, stages>>
  /\ pc' = "encode"
  /\ UNCHANGED <<args, file, options, width, height, whiteMask, visited,
                 largestAreaPoints, rotationResult, cropBounds, output, error>>
  /\ UNCHANGED <<normalizerVars, mergeVars, pixelVars>>

\* lines 671-672: encodeJPEG, then the one Deno.writeFile of the run
EncodeAndWrite ==
  /\ pc = "encode"
  /\ output' = Append(output, [image |-> image, quality |-> options.jpegQuality])
  /\ pc' = "done" /\ stages' = Append(stages, "Encoded")
  /\ UNCHANGED <<args, file, options, image, width, height, whiteMask, visited,
                 largestAreaPoints, rotationResult, cropBounds, error>>
  /\ UNCHANGED <<normalizerVars, mergeVars, pixelVars>>

Next ==
  \/ Main \/ Load \/ Classify \/ FindRegion \/ EvaluateRotation \/ DecideRotation
  \/ Reclassify \/ RefindRegion \/ RefineBounds \/ Crop
  \/ Sharpen \/ Contrast \/ Threshold \/ EncodeAndWrite

Spec == Init /\ [][Next]_vars

(***************************************************************************)
(* normalizeImage and normalizeWithChunking (image_normalizer.ts).  An     *)
(* image is its width and height; a written file is its path, its size     *)
(* and, for a chunk, the rows of the scaled image it holds.                 *)
(***************************************************************************)
MIN_CHUNK_HEIHGT == 200
DefaultTargetSize == 896
DefaultChunkOverlap == 50

\* Math.round(a / b) and Math.ceil(a / b) for a >= 0, b > 0
RoundDiv(a, b) == (2 * a + b) \div (2 * b)
CeilDiv(a, b) == (a + b - 1) \div b

\* no detectWhiteReceiptArea run is under way
DetectorIdle ==
  /\ args = DefaultArgs /\ file = MissingFile /\ pc = "idle"
  /\ options = parseArgs(DefaultArgs)
  /\ image = NoImage /\ width = 0 /\ height = 0
  /\ whiteMask = << >> /\ visited = << >> /\ largestAreaPoints = << >>
  /\ rotationResult = NoRotation /\ cropBounds = NoCrop
  /\ stages = << >> /\ output = << >> /\ error = ""

\* the double Infinity: above every index a run of the model reaches
Infinity == 2147483647
\* the loop of normalizeWithChunking is followed for MaxTurns turns; every
\* call of the model that ends writes fewer chunks
MaxTurns == 16

\* the calls of the model: decoded sizes, methods ("fit" is not a method),
\* target sizes and overlaps; chunkThreshold keeps its default 1.5
CallWidths == {DefaultTargetSize \div 2, DefaultTargetSize, 2 * DefaultTargetSize}
CallHeights == {300, 896, 900, 1076, 1344, 1792, 2700}
CallMethods == {"letterbox", "crop", "stretch", "chunk", "fit"}

NormalizeCalls ==
  {[width |-> w, height |-> h, method |-> m, targetWidth |-> t, targetHeight |-> t,
    chunkOverlap |-> o] :
     w \in CallWidths, h \in CallHeights, m \in CallMethods,
     t \in {DefaultTargetSize, DefaultTargetSize \div 2},
     o \in {DefaultChunkOverlap, 2 * DefaultChunkOverlap,
            DefaultTargetSize \div 2, DefaultTargetSize,
            DefaultTargetSize + DefaultChunkOverlap}}

\* lines 88-90: aspectRatio > 1.5 and originalHeight > targetHeight * 1.2
longReceipt(c) == 2 * c.height > 3 * c.width /\ 5 * c.height > 6 * c.targetHeight

\* line 89
shouldChunk(c) == c.method = "chunk" \/ longReceipt(c)

\* lines 466-481
scaledHeightOf(c) == RoundDiv(c.height * c.targetWidth, c.width)
chunkHeightOf(c) == c.targetHeight - c.chunkOverlap
\* line 481: Math.ceil(scaledHeight / chunkHeight); a division by zero gives
\* Infinity for the positive heights of the model, a negative chunkHeight a
\* quotient that is not positive
totalChunksOf(c) ==
  IF chunkHeightOf(c) > 0 THEN CeilDiv(scaledHeightOf(c), chunkHeightOf(c))
  ELSE IF chunkHeightOf(c) = 0 THEN Infinity
  ELSE 0 - (scaledHeightOf(c) \div (0 - chunkHeightOf(c)))

\* lines 490-492
startYOf(c, i) == i * chunkHeightOf(c)
endYOf(c, i, sh) == Min(startYOf(c, i) + c.targetHeight, sh)

\* lines 495-496: actualChunkHeight < Math.min(MIN_CHUNK_HEIHGT, targetHeight * 0.3)
tooSmall(c, actualChunkHeight) ==
  actualChunkHeight < MIN_CHUNK_HEIHGT /\ 10 * actualChunkHeight < 3 * c.targetHeight

\* line 531: `${baseOutputPath}_${chunkIndex + 1}${extension}`
chunkPathOf(i) == <<"output", i + 1>>
outputPath == <<"output">>

\* a chunk that is written as cropped, without the white canvas
finalChunkUnpadded(c, actualChunkHeight) ==
  [width |-> c.targetWidth, height |-> actualChunkHeight,
   content |-> actualChunkHeight, fill |-> "none"]

\* lines 511-522: the chunk cropped from the scaled image, put on a white
\* canvas of the target size when it is shorter than targetHeight
finalChunkOf(c, actualChunkHeight) ==
  IF actualChunkHeight < c.targetHeight
  THEN [width |-> c.targetWidth, height |-> c.targetHeight,
        content |-> actualChunkHeight, fill |-> "white"]
  ELSE [width |-> c.targetWidth, height |-> actualChunkHeight,
        content |-> actualChunkHeight, fill |-> "none"]

\* a crop method that leaves the resized image as it is
normalizedSizeUncropped(c) ==
  IF c.method = "crop"
  THEN IF c.targetWidth * c.height >= c.targetHeight * c.width
       THEN [width |-> c.targetWidth,
             height |-> RoundDiv(c.height * c.targetWidth, c.width)]
       ELSE [width |-> RoundDiv(c.width * c.targetHeight, c.height),
             height |-> c.targetHeight]
  ELSE [width |-> c.targetWidth, height |-> c.targetHeight]

\* lines 116-153, 206-279: the canvas of letterbox, the crop of crop and
\* the resize of stretch all have the target size
normalizedSize(c) == [width |-> c.targetWidth, height |-> c.targetHeight]

\* lines 77-109: load, then choose between chunks and one image
NormalizeLoad ==
  /\ npc = "normalize"
  /\ npc' = (IF shouldChunk(call) THEN "scale" ELSE "single")
  /\ UNCHANGED <<call, scaledHeight, totalChunks, chunkIndex, chunkPaths, written, result>>
  /\ UNCHANGED <<vars, mergeVars, pixelVars>>

\* lines 111-199: one image of the method's size, written to outputPath
NormalizeSingle ==
  /\ npc = "single"
  /\ IF call.method \in {"letterbox", "crop", "stretch"}
     THEN LET size == normalizedSize(call)
          IN  /\ written' = Append(written,
                              [path |-> outputPath, width |-> size.width,
                               height |-> size.height, rows |-> [from |-> 0, to |-> -1]])
              /\ result' = [method |-> call.method, normalizedDimensions |-> size,
                            aspectRatioPreserved |-> call.method # "stretch",
                            chunked |-> FALSE, chunksCreated |-> 0, chunkPaths |-> << >>]
              /\ npc' = "returned"
     ELSE /\ npc' = "thrown"
          /\ UNCHANGED <<written, result>>
  /\ UNCHANGED <<call, scaledHeight, totalChunks, chunkIndex, chunkPaths>>
  /\ UNCHANGED <<vars, mergeVars, pixelVars>>

\* lines 466-488: scale to the target width and count the chunks
ScaleToWidth ==
  /\ npc = "scale"
  /\ scaledHeight' = scaledHeightOf(call)
  /\ totalChunks' = totalChunksOf(call)
  /\ chunkIndex' = 0 /\ chunkPaths' = << >>
  /\ npc' = "chunk"
  /\ UNCHANGED <<call, written, result>>
  /\ UNCHANGED <<vars, mergeVars, pixelVars>>

\* lines 490-541: one turn of the loop, which skips or writes a chunk; past
\* MaxTurns turns the loop goes on and the model no longer records it
ChunkStep ==
  /\ npc = "chunk" /\ chunkIndex < totalChunks
  /\ LET startY == startYOf(call, chunkIndex)
         endY == endYOf(call, chunkIndex, scaledHeight)
         finalChunk == finalChunkOf(call, endY - startY)
     IN  IF tooSmall(call, endY - startY) \/ chunkIndex >= MaxTurns
         THEN UNCHANGED <<chunkPaths, written>>
         ELSE /\ written' = Append(written,
                              [path |-> chunkPathOf(chunkIndex),
                               width |-> finalChunk.width, height |-> finalChunk.height,
                               content |-> finalChunk.content, fill |-> finalChunk.fill,
                               rows |-> [from |-> startY, to |-> endY - 1]])
              /\ chunkPaths' = Append(chunkPaths, chunkPathOf(chunkIndex))
  /\ chunkIndex' = (IF chunkIndex < MaxTurns THEN chunkIndex + 1 ELSE chunkIndex)
  /\ UNCHANGED <<call, npc, scaledHeight, totalChunks, result>>
  /\ UNCHANGED <<vars, mergeVars, pixelVars>>

\* lines 544-571: the result of chunk mode
ChunksReturn ==
  /\ npc = "chunk" /\ ~(chunkIndex < totalChunks)
  /\ result' = [method |-> "chunk",
                normalizedDimensions |-> [width |-> call.targetWidth,
                                          height |-> call.targetHeight],
                aspectRatioPreserved |-> TRUE,
                chunked |-> TRUE, chunksCreated |-> totalChunks, chunkPaths |-> chunkPaths]
  /\ npc' = "returned"
  /\ UNCHANGED <<call, scaledHeight, totalChunks, chunkIndex, chunkPaths, written>>
  /\ UNCHANGED <<vars, mergeVars, pixelVars>>

NormalizerInit ==
  /\ call \in NormalizeCalls /\ npc = "normalize"
  /\ scaledHeight = 0 /\ totalChunks = 0 /\ chunkIndex = 0
  /\ chunkPaths = << >> /\ written = << >> /\ result = NoResult
  /\ DetectorIdle /\ MergeIdle /\ PixelIdle

NormalizerNext ==
  NormalizeLoad \/ NormalizeSingle \/ ScaleToWidth \/ ChunkStep \/ ChunksReturn

NormalizerSpec == NormalizerInit /\ [][NormalizerNext]_normalizerVars

\* an awaited call goes on as long as it has a step to take
NormalizerLiveSpec == NormalizerSpec /\ WF_normalizerVars(NormalizerNext)

(***************************************************************************)
(* The text merge: deduplicateAndMergeText of src/unnamed/part_008.        *)
(* A string is a sequence of one-character strings; a text holds "\n"      *)
(* between its lines.                                                      *)
(***************************************************************************)
MaxLines == 5

UpperCase ==
  <<"A", "B", "C", "D", "E", "F", "G", "H", "I", "J", "K", "L", "M",
    "N", "O", "P", "Q", "R", "S", "T", "U", "V", "W", "X", "Y", "Z">>
LowerCase ==
  <<"a", "b", "c", "d", "e", "f", "g", "h", "i", "j", "k", "l", "m",
    "n", "o", "p", "q", "r", "s", "t", "u", "v", "w", "x", "y", "z">>

\* the class \s, and the characters String.prototype.trim strips
IsSpace(c) == c \in {" ", "\t", "\n"}
\* the class \w
IsWordChar(c) ==
  \/ \E k \in 1 .. 26 : c = UpperCase[k] \/ c = LowerCase[k]
  \/ IsDigit(c)
  \/ c = "_"

toLowerCase(s) ==
  [i \in 1 .. Len(s) |->
     IF \E k \in 1 .. 26 : UpperCase[k] = s[i]
     THEN LowerCase[CHOOSE k \in 1 .. 26 : UpperCase[k] = s[i]]
     ELSE s[i]]

\* replace(/[^\w\s]/g, "")
removePunctuation(s) == SelectSeq(s, LAMBDA c : IsWordChar(c) \/ IsSpace(c))

\* replace(/\s+/g, " "): every run of white space becomes one space
RECURSIVE collapseFrom(_, _)
collapseFrom(s, i) ==
  IF i > Len(s) THEN << >>
  ELSE IF IsSpace(s[i])
       THEN (IF i > 1 /\ IsSpace(s[i - 1]) THEN << >> ELSE <<" ">>)
            \o collapseFrom(s, i + 1)
       ELSE <<s[i]>> \o collapseFrom(s, i + 1)
collapseSpaces(s) == collapseFrom(s, 1)

trim(s) ==
  LET kept == {i \in 1 .. Len(s) : ~IsSpace(s[i])}
  IN  IF kept = {} THEN << >>
      ELSE SubSeq(s, CHOOSE i \in kept : \A j \in kept : i <= j,
                     CHOOSE i \in kept : \A j \in kept : i >= j)

normalizeLineForComparison(line) ==
  trim(collapseSpaces(removePunctuation(toLowerCase(line))))

\* a.includes(b)
includes(a, b) ==
  \E i \in 0 .. Len(a) - Len(b) : SubSeq(a, i + 1, i + Len(b)) = b

\* text.split("\n")
RECURSIVE splitFrom(_, _, _)
splitFrom(text, i, line) ==
  IF i > Len(text) THEN <<line>>
  ELSE IF text[i] = "\n" THEN <<line>> \o splitFrom(text, i + 1, << >>)
       ELSE splitFrom(text, i + 1, Append(line, text[i]))
split(text) == splitFrom(text, 1, << >>)

\* lines.join("\n")
RECURSIVE join(_)
join(lines) ==
  IF lines = << >> THEN << >>
  ELSE IF Len(lines) = 1 THEN lines[1]
       ELSE lines[1] \o <<"\n">> \o join(Tail(lines))

\* array.slice(n) for n >= 0
slice(seq, n) == SubSeq(seq, n + 1, Len(seq))

\* chunk.split("\n").map(trim).filter(line => line.length > 0)
linesOf(chunk) ==
  LET trimmed == [i \in 1 .. Len(split(chunk)) |-> trim(split(chunk)[i])]
  IN  SelectSeq(trimmed, LAMBDA line : Len(line) > 0)

\* the count of consecutive matching lines from newStart on: the merged
\* lines are taken from the last one backwards, the new ones forwards
RECURSIVE matchLengthFrom(_, _, _, _)
matchLengthFrom(endOfMerged, newChunkLines, newStart, i) ==
  IF /\ i < Min(Len(endOfMerged), Len(newChunkLines) - newStart)
     /\ normalizeLineForComparison(endOfMerged[Len(endOfMerged) - i])
          = normalizeLineForComparison(newChunkLines[newStart + i + 1])
  THEN matchLengthFrom(endOfMerged, newChunkLines, newStart, i + 1)
  ELSE i

\* the fuzzy test of one new line against the last five merged lines
fuzzyMatch(merged, newChunkLines, newStart) ==
  LET newLine == normalizeLineForComparison(newChunkLines[newStart + 1])
  IN  \E mergedIndex \in Max(0, Len(merged) - 5) .. Len(merged) - 1 :
        LET mergedLine == normalizeLineForComparison(merged[mergedIndex + 1])
        IN  \/ Len(newLine) > 10 /\ includes(mergedLine, newLine)
            \/ includes(newLine, mergedLine)

findBestOverlap(merged, newChunkLines) ==
  LET lookbackLines == Min(10, Len(merged))
      lookforwardLines == Min(10, Len(newChunkLines))
      endOfMerged == SubSeq(merged, Len(merged) - lookbackLines + 1,
                            Len(merged))
      matchLength(newStart) ==
        matchLengthFrom(endOfMerged, newChunkLines, newStart, 0)
      exact == {s \in 0 .. lookforwardLines - 1 : matchLength(s) >= 2}
      fuzzy == {s \in 0 .. Min(5, Len(newChunkLines)) - 1 :
                  fuzzyMatch(merged, newChunkLines, s)}
  IN  IF exact # {}
      THEN LET newStart == CHOOSE s \in exact : \A t \in exact : s <= t
           IN  newStart + matchLength(newStart)
      ELSE IF fuzzy # {}
           THEN (CHOOSE s \in fuzzy : \A t \in fuzzy : s <= t) + 1
           ELSE -1

\* --- the chunk texts --------------------------------------------------------
Line(n) == <<"L", "i", "n", "e", " ", Digits[n + 1]>>
Document == [n \in 1 .. MaxLines |-> Line(n)]
Window(a, b) == SubSeq(Document, a, b)

\* the same lines as an OCR pass may give them: upper case, a full stop,
\* white space around the line and an empty line between two lines
RECURSIVE joinLoose(_)
joinLoose(lines) ==
  IF lines = << >> THEN << >>
  ELSE <<" ">> \o [i \in 1 .. Len(lines[1]) |->
                     IF lines[1][i] = "i" THEN "I" ELSE lines[1][i]]
       \o <<".", " ", "\n", "\n">> \o joinLoose(Tail(lines))

\* a window of the document, and a second window that starts inside the
\* first, right after it, or one line further on
WindowPairs ==
  {<<a, b, c>> \in (1 .. MaxLines) \X (1 .. MaxLines) \X (1 .. MaxLines) :
     b <= a + 2 /\ b <= c}

\* "Subtotal 112.50" holds, normalised, the 11 characters of "total 112.50"
Subtotal == <<"S", "u", "b", "t", "o", "t", "a", "l", " ", "1", "1", "2", ".", "5", "0">>
TotalDue == <<"t", "o", "t", "a", "l", " ", "1", "1", "2", ".", "5", "0">>
Rule == <<"-", "-", "-">>

MergeInputs ==
  {<< >>, <<join(Window(1, 2))>>}
    \cup {<<join(Window(1, w[1])), join(Window(w[2], w[3]))>> : w \in WindowPairs}
    \cup {<<join(Window(1, w[1])), joinLoose(Window(w[2], w[3]))>> : w \in WindowPairs}
    \cup {<<join(Window(1, 2)), join(Window(2, 3)), join(Window(w, MaxLines))>> :
            w \in 2 .. MaxLines}
    \cup {<<join(<<Line(1), Line(7), Line(7)>>), join(<<Line(7), Line(7), Line(2)>>)>>,
          <<join(<<Line(1), Subtotal>>), join(<<TotalDue, Line(2)>>)>>,
          <<join(<<Line(1), Rule>>), join(<<Line(2), Line(3)>>)>>}

\* --- deduplicateAndMergeText --------------------------------------------------
\* lines 252-253: nothing to merge
MergeTrivial ==
  /\ mpc = "start" /\ Len(textChunks) <= 1
  /\ mergedText' = IF Len(textChunks) = 0 THEN << >> ELSE textChunks[1]
  /\ mpc' = "returned"
  /\ UNCHANGED <<textChunks, chunkLines, mergedLines, mergeIndex, overlaps>>
  /\ UNCHANGED <<vars, normalizerVars, pixelVars>>

\* lines 258-267: the chunks are split into lines, the first chunk is taken whole
SplitChunks ==
  /\ mpc = "start" /\ Len(textChunks) > 1
  /\ chunkLines' = [i \in 1 .. Len(textChunks) |-> linesOf(textChunks[i])]
  /\ mergedLines' = linesOf(textChunks[1])
  /\ mergeIndex' = 1
  /\ mpc' = "merge"
  /\ UNCHANGED <<textChunks, overlaps, mergedText>>
  /\ UNCHANGED <<vars, normalizerVars, pixelVars>>

\* lines 271-296: one turn of the loop
MergeChunk ==
  /\ mpc = "merge" /\ mergeIndex < Len(chunkLines)
  /\ LET currentChunk == chunkLines[mergeIndex + 1]
         overlapIndex == findBestOverlap(mergedLines, currentChunk)
     IN  /\ overlaps' = Append(overlaps, overlapIndex)
         /\ mergedLines' =
              IF overlapIndex >= 0
              THEN mergedLines \o slice(currentChunk, overlapIndex)
              ELSE mergedLines \o currentChunk
  /\ mergeIndex' = mergeIndex + 1
  /\ UNCHANGED <<textChunks, mpc, chunkLines, mergedText>>
  /\ UNCHANGED <<vars, normalizerVars, pixelVars>>

\* line 299
JoinLines ==
  /\ mpc = "merge" /\ mergeIndex >= Len(chunkLines)
  /\ mergedText' = join(mergedLines)
  /\ mpc' = "returned"
  /\ UNCHANGED <<textChunks, chunkLines, mergedLines, mergeIndex, overlaps>>
  /\ UNCHANGED <<vars, normalizerVars, pixelVars>>

MergeInit ==
  /\ textChunks \in MergeInputs /\ mpc = "start"
  /\ chunkLines = << >> /\ mergedLines = << >> /\ mergeIndex = 0
  /\ overlaps = << >> /\ mergedText = << >>
  /\ DetectorIdle /\ NormalizerIdle /\ PixelIdle

MergeNext == MergeTrivial \/ SplitChunks \/ MergeChunk \/ JoinLines

MergeSpec == MergeInit /\ [][MergeNext]_mergeVars

(***************************************************************************)
(* safeGetPixel (lines 84-89 and 244-250), applied once to each probe.     *)
(* ImageScript's getPixelAt rejects an index outside 1..width, 1..height   *)
(* with a RangeError, which safeGetPixel does not catch.                   *)
(***************************************************************************)
InBitmap(img) == (1 .. img.width) \X (1 .. img.height)

SafeGetPixel ==
  /\ ppc = "call"
  /\ LET w == probe.image.width
         h == probe.image.height
         calls == getPixelAtCalls(w, h, probe.x, probe.y)
     IN  /\ pixelCalls' = calls
         /\ IF calls \subseteq InBitmap(probe.image)
            THEN /\ pixelResult' = safeGetPixel(probe.image, w, h, probe.x, probe.y)
                 /\ ppc' = "returned"
            ELSE /\ pixelResult' = pixelResult
                 /\ ppc' = "thrown"
  /\ UNCHANGED probe
  /\ UNCHANGED <<vars, normalizerVars, mergeVars>>

PixelInit ==
  /\ probe \in Probes /\ ppc = "call"
  /\ pixelCalls = {} /\ pixelResult = Transparent
  /\ DetectorIdle /\ NormalizerIdle /\ MergeIdle

PixelNext == SafeGetPixel

PixelSpec == PixelInit /\ [][PixelNext]_pixelVars

(***************************************************************************)
(* Properties.                                                             *)
(***************************************************************************)

\* C1: detectRotationAngle returns an angle within [-45, 45] degrees, or
\* angle 0 together with confidence 0; never a non-zero angle of magnitude
\* greater than 45.
C1_AngleWithin45 ==
  pc = "decideRotation" =>
    \/ rotationResult.angle \in -45 .. 45
    \/ rotationResult.angle = 0 /\ rotationResult.confidence.num = 0

\* C2: whenever the largest-area search comes back empty the pipeline
\* aborts, the search on the rotated image included: bounds refinement and
\* cropping are never reached with an empty region.
C2_EmptyRegionAborts ==
  pc \in {"refineBounds", "crop", "sharpen", "contrast", "threshold", "encode", "done"}
    => Len(largestAreaPoints) > 0

\* C3: every crop box satisfies 0 <= left <= right < currentWidth and
\* 0 <= top <= bottom < currentHeight, the dimensions being those of the
\* image at crop time (the rotated canvas after a rotation).
C3_CropWithinCurrentImage ==
  pc = "crop" =>
    /\ 0 <= cropBounds.left /\ cropBounds.left <= cropBounds.right
    /\ cropBounds.right < image.width
    /\ 0 <= cropBounds.top /\ cropBounds.top <= cropBounds.bottom
    /\ cropBounds.bottom < image.height

\* C3, its case: a crop box on a rotated canvas wider than the original
\* image, reaching beyond the original width
C3_CropOnRotatedCanvas ==
  /\ pc = "crop"
  /\ \E i \in 1 .. Len(stages) : stages[i] = "Rotated"
  /\ image.width > width
  /\ cropBounds.right >= width

\* C4: a run whose jpegQuality is not within 1..100, sharpeningStrength not
\* within 0.1..3.0, contrastFactor not within 0.1..5.0 or thresholdValue
\* not within 0..255 is rejected before any image work: nothing is decoded,
\* no pixel is changed, nothing is written.
C4_OutOfRangeRejected ==
  LET o == parseArgs(args)
      Within(n, lo, hi) == ~n.nan /\ lo <= n.v /\ n.v <= hi
      inRange == /\ Within(o.jpegQuality, 1, 100)
                 /\ Within(o.sharpeningStrength, 10, 300)
                 /\ Within(o.contrastFactor, 10, 500)
                 /\ Within(o.thresholdValue, 0, 255)
  IN  (~inRange /\ pc # "main") =>
        /\ pc = "exited"
        /\ image = NoImage
        /\ stages = << >>
        /\ output = << >>

\* C5: when no pixel of the input image passes isWhiteish, the run ends
\* with the no-white-area error, with no crop box and no output.
C5_NoWhitePixelFails ==
  (/\ file.kind = "image"
   /\ \A q \in Coords(file.img.width, file.img.height) :
        ~isWhiteish(getPixelAt(file.img, q[1] + 1, q[2] + 1)))
  => /\ pc \in {"main", "exited", "load", "classify", "findRegion", "failed"}
     /\ pc = "failed" => error = "No significant white area found!"
     /\ cropBounds = NoCrop
     /\ output = << >>

\* C5, its case: an image without a white-ish pixel whose run has failed
C5_DarkImageFailed ==
  /\ file.kind = "image"
  /\ \A q \in Coords(file.img.width, file.img.height) :
       ~isWhiteish(getPixelAt(file.img, q[1] + 1, q[2] + 1))
  /\ pc = "failed"

\* C6: for a black margin around a white block with one dark rectangle in
\* its middle, run with default options, the crop box is the rectangle's
\* bounds widened by the 5px padding and clamped to the white block.
C6_ExampleCropIsRectanglePlusPadding ==
  (file = ImageFile(ExampleImage(Black)) /\ args = DefaultArgs /\ pc = "crop") =>
    cropBounds =
      [left   |-> Max(ExampleMargin, ExampleRect.x0 - PADDING),
       top    |-> Max(ExampleMargin, ExampleRect.y0 - PADDING),
       right  |-> Min(ExampleWidth - 1 - ExampleMargin, ExampleRect.x1 + PADDING),
       bottom |-> Min(ExampleHeight - 1 - ExampleMargin, ExampleRect.y1 + PADDING)]

\* C7: for every dominant angle d with 170 < d < 180 the rotation returned
\* is 180 - d; a dominant angle of 178 gives +2, not -88.
C7_NearBoundaryConversion ==
  /\ \A d \in 171 .. 179 : rotationFromDominant(d) = 180 - d
  /\ (pc = "decideRotation" /\ rotationResult.dominantAngle \in 171 .. 179) =>
       /\ rotationResult.angle = 180 - rotationResult.dominantAngle
       /\ rotationResult.method = "edge_gradient_analysis"

\* C7, its case: an estimate whose dominant angle is 178
C7_Dominant178 ==
  /\ pc = "decideRotation"
  /\ rotationResult.dominantAngle = 178
  /\ rotationResult.angle = 2

\* C8: the output file is written at most once, and only after decoding,
\* region detection, cropping and every enabled filter; when a stage fails
\* nothing has been written.
C8_WrittenOnceAtTheEnd ==
  LET Completed(st) == \E i \in 1 .. Len(stages) : stages[i] = st
  IN  /\ Len(output) <= 1
      /\ pc \in {"failed", "exited"} => output = << >>
      /\ output # << >> =>
           /\ pc = "done"
           /\ Completed("Loaded") /\ Completed("RegionFound") /\ Completed("Cropped")
           /\ options.applySharpening => Completed("Sharpened")
           /\ options.applyContrast => Completed("ContrastEnhanced")
           /\ options.applyThreshold => Completed("Thresholded")
           /\ output[1].image = image

\* C8, its case: a run with all three filters enabled that has written
C8_WrittenAfterAllFilters ==
  /\ pc = "done"
  /\ Len(output) = 1
  /\ options.applySharpening /\ options.applyContrast /\ options.applyThreshold

C10_LargestComponent ==
  pc \in {"evaluateRotation", "refineBounds"} =>
    LET cells == DOMAIN whiteMask
        RECURSIVE Grow(_, _)
        Grow(S, F) ==
          LET N == {q \in UNION {{<<p[1] + dx, p[2] + dy>> : dx \in -1 .. 1, dy \in -1 .. 1} : p \in F} :
                      q \in cells /\ whiteMask[q] /\ q \notin S}
          IN  IF N = {} THEN S ELSE Grow(S \cup N, N)
    IN  \A p \in cells :
          whiteMask[p] => Cardinality(Grow({p}, {p})) <= Len(largestAreaPoints)

\* C10, as amended: the region is a whole 8-connected component of the
\* mask, each point listed once, and it is the largest of the components
\* that hold a seed (a masked pixel with both coordinates multiples of 5),
\* the first one met in scan order among those of equal size; it is empty
\* when no seed is masked.
C10_LargestSeededComponent ==
  pc \in {"evaluateRotation", "refineBounds"} =>
    LET cells == DOMAIN whiteMask
        RECURSIVE Grow(_, _)
        Grow(S, F) ==
          LET N == {q \in UNION {{<<p[1] + dx, p[2] + dy>> : dx \in -1 .. 1, dy \in -1 .. 1} : p \in F} :
                      q \in cells /\ whiteMask[q] /\ q \notin S}
          IN  IF N = {} THEN S ELSE Grow(S \cup N, N)
        seeds == {q \in cells : q[1] % SeedStride = 0 /\ q[2] % SeedStride = 0 /\ whiteMask[q]}
        region == {largestAreaPoints[i] : i \in 1 .. Len(largestAreaPoints)}
        Before(a, b) == a[2] < b[2] \/ (a[2] = b[2] /\ a[1] < b[1])
    IN  /\ Cardinality(region) = Len(largestAreaPoints)
        /\ IF seeds = {} THEN region = {}
           ELSE \E s \in seeds :
                  /\ region = Grow({s}, {s})
                  /\ \A t \in seeds \ region :
                       LET n == Cardinality(Grow({t}, {t}))
                       IN  n < Cardinality(region)
                           \/ (n = Cardinality(region)
                               /\ \E u \in seeds \cap region : Before(u, t))

\* C10, its case: a search that returns a region while a larger component,
\* one that holds no seed, is in the mask
C10_LargerUnseededComponent ==
  /\ pc = "evaluateRotation"
  /\ Len(largestAreaPoints) = 1
  /\ Cardinality({q \in DOMAIN whiteMask : whiteMask[q]}) > 1

\* the stages of the pipeline in the order the code runs them
StageOrder ==
  << "Loaded", "Classified", "RegionFound", "RotationEvaluated", "Rotated",
     "ReClassified", "ReRegionFound", "BoundsRefined", "Cropped", "Sharpened",
     "ContrastEnhanced", "Thresholded", "Encoded" >>

StageRank(s) == CHOOSE i \in 1 .. Len(StageOrder) : StageOrder[i] = s

StagesDone == {stages[i] : i \in 1 .. Len(stages)}

\* the steps that come after the rotation and the search on the rotated image
AfterRotationSteps ==
  {"refineBounds", "crop", "sharpen", "contrast", "threshold", "encode", "done"}

\* C11: the stages of one invocation occur in the order Loaded, Classified,
\* RegionFound, RotationEvaluated, [Rotated, ReClassified, ReRegionFound],
\* BoundsRefined, Cropped, [Sharpened], [ContrastEnhanced], [Thresholded],
\* Encoded: no stage is entered after a later one, none is repeated (so the
\* rotation happens at most once), the classification and the region search
\* are redone exactly when the rotation was applied, and a run that ends
\* has passed every stage that is not optional.
C11_StagesInOrder ==
  /\ \A i \in 1 .. Len(stages) : stages[i] \in {StageOrder[k] : k \in 1 .. Len(StageOrder)}
  /\ \A i, j \in 1 .. Len(stages) : i < j => StageRank(stages[i]) < StageRank(stages[j])
  /\ pc \in AfterRotationSteps =>
       /\ ("Rotated" \in StagesDone) = ("ReClassified" \in StagesDone)
       /\ ("Rotated" \in StagesDone) = ("ReRegionFound" \in StagesDone)
       /\ ("Rotated" \in StagesDone) = rotationAccepted(rotationResult)
  /\ pc = "done" =>
       {"Loaded", "Classified", "RegionFound", "RotationEvaluated", "BoundsRefined",
        "Cropped", "Encoded"} \subseteq StagesDone

\* a run that rotated, searched again, applied filters and ended
C11_RotatedRunEnded ==
  /\ pc = "done"
  /\ "Rotated" \in StagesDone
  /\ Len(stages) = 10

\* the image the crop leaves, recomputed from the image it was cut from
croppedFrom(img) ==
  cropImage(img, cropBounds.left, cropBounds.top,
            cropBounds.right - cropBounds.left + 1,
            cropBounds.bottom - cropBounds.top + 1)

\* the enabled filters applied once each, sharpen, then contrast, then threshold
filteredInOrder(img) ==
  LET s == IF options.applySharpening
           THEN applySharpeningFilter(img, options.sharpeningStrength) ELSE img
      c == IF options.applyContrast
           THEN applyContrastFilter(s, options.contrastFactor) ELSE s
  IN  IF options.applyThreshold THEN applyThresholdFilter(c, options.thresholdValue) ELSE c

\* the image the crop was cut from: the decoded one, or one the rotation left
cropSources ==
  {src \in (IF "Rotated" \in StagesDone THEN RotatedImages ELSE {file.img}) :
     cropBounds.right < src.width /\ cropBounds.bottom < src.height}

\* the filter stages of the history, in order
filterStages ==
  SelectSeq(stages, LAMBDA st : st \in {"Sharpened", "ContrastEnhanced", "Thresholded"})

enabledFilterStages ==
  (IF options.applySharpening THEN << "Sharpened" >> ELSE << >>)
  \o (IF options.applyContrast THEN << "ContrastEnhanced" >> ELSE << >>)
  \o (IF options.applyThreshold THEN << "Thresholded" >> ELSE << >>)

\* C12: for every combination of applySharpening, applyContrast and
\* applyThreshold the image written is the cropped image with exactly the
\* enabled filters applied, each once, in the order sharpen, contrast,
\* threshold; and a filter step whose flag is off leaves every pixel of the
\* image as it was.
C12_EnabledFiltersInOrder ==
  /\ [](pc = "done" =>
          /\ filterStages = enabledFilterStages
          /\ \E src \in cropSources : image = filteredInOrder(croppedFrom(src))
          /\ output[1].image = image)
  /\ [][ /\ (pc = "sharpen" /\ ~options.applySharpening => image' = image)
         /\ (pc = "contrast" /\ ~options.applyContrast => image' = image)
         /\ (pc = "threshold" /\ ~options.applyThreshold => image' = image) ]_vars

\* the three filters ran on the grey block, each changed pixels, and the
\* order threshold, contrast, sharpen would have given another image
C12_ThreeFiltersOnGreyBlock ==
  /\ pc = "done" /\ file.img = GreyBlock
  /\ options.applySharpening /\ options.applyContrast /\ options.applyThreshold
  /\ LET c == croppedFrom(file.img)
         s == applySharpeningFilter(c, options.sharpeningStrength)
         sc == applyContrastFilter(s, options.contrastFactor)
     IN  /\ s # c /\ sc # s /\ image # sc
         /\ image # applySharpeningFilter(
                      applyContrastFilter(applyThresholdFilter(c, options.thresholdValue),
                                          options.contrastFactor),
                      options.sharpeningStrength)

\* only the contrast filter is off and the image written is the thresholded
\* sharpened crop
C12_ContrastOffOnGreyBlock ==
  /\ pc = "done" /\ file.img = GreyBlock
  /\ options.applySharpening /\ ~options.applyContrast /\ options.applyThreshold
  /\ stages = << "Loaded", "Classified", "RegionFound", "RotationEvaluated",
                 "BoundsRefined", "Cropped", "Sharpened", "Thresholded", "Encoded" >>

\* C13: when detectRotationAngle finds fewer than 10 gradients of magnitude
\* over 10 it returns angle 0 and confidence 0 ("insufficient_edges"); the
\* run does not fail on that account and no rotation is applied: the next
\* steps are bounds refinement, crop, the filters and encode, on the image
\* as decoded, and the run ends with one image written.
C13_InsufficientEdgesContinue ==
  /\ [](rotationResult.method # "none" /\ rotationResult.edges < MinGradients =>
          /\ rotationResult.method = "insufficient_edges"
          /\ rotationResult.angle = 0 /\ rotationResult.confidence.num = 0
          /\ pc \in {"decideRotation"} \cup AfterRotationSteps
          /\ error = ""
          /\ "Rotated" \notin StagesDone
          /\ (pc \in {"decideRotation", "refineBounds", "crop"} => image = file.img)
          /\ (pc = "done" =>
                /\ {"BoundsRefined", "Cropped", "Encoded"} \subseteq StagesDone
                /\ Len(output) = 1))
  /\ [][rotationResult.method = "insufficient_edges" =>
          /\ (pc = "decideRotation" => pc' = "refineBounds" /\ image' = image)
          /\ (pc = "refineBounds" => pc' = "crop")
          /\ (pc = "crop" => pc' = "sharpen")
          /\ (pc = "sharpen" => pc' = "contrast")
          /\ (pc = "contrast" => pc' = "threshold")
          /\ (pc = "threshold" => pc' = "encode")
          /\ (pc = "encode" => pc' = "done" /\ Len(output') = 1)]_vars

\* a run with some gradients, but fewer than 10, that ended with an image written
C13_FewEdgesRunEnded ==
  /\ pc = "done" /\ Len(output) = 1
  /\ rotationResult.method = "insufficient_edges"
  /\ rotationResult.edges > 0 /\ rotationResult.edges < MinGradients

\* the image is a white-ish block inside a margin of width m on every side,
\* the margin of one colour that is not white-ish
hasDarkMargin(img, m) ==
  /\ m >= 1 /\ 2 * m < img.width /\ 2 * m < img.height
  /\ ~isWhiteish(img.px[<<0, 0>>])
  /\ \A p \in Coords(img.width, img.height) :
        IF /\ m <= p[1] /\ p[1] <= img.width - 1 - m
           /\ m <= p[2] /\ p[2] <= img.height - 1 - m
        THEN isWhiteish(img.px[p])
        ELSE img.px[p] = img.px[<<0, 0>>]

\* the steps at which the crop box has been computed
AfterBoundsSteps == {"crop", "sharpen", "contrast", "threshold", "encode", "done"}

\* C14: for an image with a uniform dark margin of width W around a bright
\* block, the crop box leaves out at least W - 5 pixels on each of the four
\* sides of the image (the image is not rotated on the way).
C14_MarginRemoved ==
  \A m \in 1 .. ExampleMargin + 1 :
    (pc \in AfterBoundsSteps /\ file.kind = "image" /\ hasDarkMargin(file.img, m)) =>
      /\ "Rotated" \notin StagesDone
      /\ cropBounds.left >= m - PADDING
      /\ cropBounds.top >= m - PADDING
      /\ file.img.width - 1 - cropBounds.right >= m - PADDING
      /\ file.img.height - 1 - cropBounds.bottom >= m - PADDING

\* the widest margin of the model: the crop leaves out part of it on every side
C14_WideMarginCropped ==
  /\ pc = "done" /\ file.kind = "image"
  /\ hasDarkMargin(file.img, ExampleMargin + 1)
  /\ cropBounds.left = ExampleMargin + 1 - PADDING
  /\ cropBounds.left > 0 /\ cropBounds.top > 0
  /\ cropBounds.right < file.img.width - 1 /\ cropBounds.bottom < file.img.height - 1
  /\ output[1].image.width = file.img.width - 2 * (ExampleMargin + 1 - PADDING)

\* the errors that report the input itself as bad
InvalidInputErrors == {"readFile", "decode", "Image has zero dimensions"}

C15_ZeroDimensionEndsInSearch ==
  (file.kind = "image" /\ (file.img.width = 0 \/ file.img.height = 0)) =>
    /\ pc \in {"main", "load", "classify", "findRegion", "failed"}
    /\ pc = "failed" => error = "No significant white area found!"
    /\ output = << >>

\* a run on an image without a pixel that failed in the region search
C15_ZeroDimensionFailed ==
  /\ file.kind = "image" /\ (file.img.width = 0 \/ file.img.height = 0)
  /\ pc = "failed" /\ error = "No significant white area found!"
  /\ stages = << "Loaded", "Classified" >>

\* the rows of the scaled image that some written chunk holds
rowWritten(y) == \E i \in 1 .. Len(written) : written[i].rows.from <= y /\ y <= written[i].rows.to

\* C16: every result of chunk mode lists as many paths as it counts chunks
\* created, and every listed path has been written.
C16_PathsMatchChunksCreated ==
  (npc = "returned" /\ result.chunked) =>
    /\ Len(result.chunkPaths) = result.chunksCreated
    /\ \A i \in 1 .. Len(result.chunkPaths) :
         \E j \in 1 .. Len(written) : written[j].path = result.chunkPaths[i]

\* what the code keeps when the overlap is below targetHeight: the listed
\* paths are exactly the files written, one per chunk that was not skipped,
\* and never more than chunksCreated
C16_PathsAreWrittenChunks ==
  (npc = "returned" /\ result.chunked /\ chunkHeightOf(call) > 0) =>
    /\ Len(result.chunkPaths) <= result.chunksCreated
    /\ result.chunkPaths = [i \in 1 .. Len(written) |-> written[i].path]

\* a receipt of 896 x 900 in chunk mode with the default target and overlap:
\* the second chunk would hold 54 rows and is skipped
ShortTailCall ==
  [width |-> 896, height |-> 900, method |-> "chunk", targetWidth |-> DefaultTargetSize,
   targetHeight |-> DefaultTargetSize, chunkOverlap |-> DefaultChunkOverlap]

\* the result for that receipt counts two chunks and lists one path
C16_SkippedChunkCounted ==
  /\ call = ShortTailCall /\ npc = "returned"
  /\ result.chunksCreated = 2 /\ result.chunkPaths = << chunkPathOf(0) >>
  /\ Len(written) = 1

\* C17: in chunk mode every pixel row of the width-scaled image is held by
\* at least one written chunk.
C17_EveryRowInAChunk ==
  (npc = "returned" /\ result.chunked) =>
    \A y \in 0 .. scaledHeight - 1 : rowWritten(y)

\* what the code keeps: consecutive written chunks overlap or touch, so the
\* rows from 0 to the end of the last written chunk are all held
C17_RowsUpToLastChunk ==
  (npc = "returned" /\ result.chunked /\ written # << >>) =>
    \A y \in 0 .. written[Len(written)].rows.to : rowWritten(y)

\* for the receipt of 896 x 900 the rows 896 to 899 are in no chunk
C17_TailRowsLost ==
  /\ call = ShortTailCall /\ npc = "returned"
  /\ scaledHeight = 900
  /\ \A y \in 0 .. 895 : rowWritten(y)
  /\ \A y \in 896 .. 899 : ~rowWritten(y)

SingleMethods == {"letterbox", "crop", "stretch"}

\* exactly one file was written: outputPath, of the target size
oneTargetImage ==
  /\ Len(written) = 1
  /\ written[1].path = outputPath
  /\ written[1].width = call.targetWidth /\ written[1].height = call.targetHeight

\* C18: whenever normalizeImage is called with method letterbox, crop or
\* stretch and returns, one image of exactly targetWidth x targetHeight has
\* been written to outputPath, whatever the size of the input image.
C18_SingleImageOfTargetSize ==
  (npc = "returned" /\ call.method \in SingleMethods) => oneTargetImage

\* C18, as the code has it: the same holds unless the image is a long
\* receipt (height over 1.5 times the width and over 1.2 times the target
\* height); a long receipt is cut into chunks whatever the method, the
\* result says "chunk", and nothing is written to outputPath.
C18_SingleImageUnlessLong ==
  (npc = "returned" /\ call.method \in SingleMethods) =>
    IF longReceipt(call)
    THEN /\ result.chunked /\ result.method = "chunk"
         /\ \A i \in 1 .. Len(written) : written[i].path # outputPath
    ELSE /\ oneTargetImage
         /\ ~result.chunked /\ result.method = call.method
         /\ result.normalizedDimensions =
              [width |-> call.targetWidth, height |-> call.targetHeight]

\* a wide image normalised with crop: one image of the target size
C18_WideImageCropped ==
  /\ npc = "returned" /\ call.method = "crop"
  /\ call.width = 2 * DefaultTargetSize /\ call.height = 300
  /\ call.targetWidth = DefaultTargetSize
  /\ oneTargetImage

\* a long receipt normalised with letterbox: chunks, and no file at outputPath
C18_LongReceiptChunked ==
  /\ npc = "returned" /\ call.method = "letterbox"
  /\ call.width = DefaultTargetSize /\ call.height = 1792
  /\ call.targetWidth = DefaultTargetSize
  /\ result.method = "chunk" /\ Len(written) = 3


\* the first k lines of newChunkLines equal, after normalisation and in the
\* same order, the last k lines of merged
overlapsBy(merged, newChunkLines, k) ==
  /\ k <= Len(merged) /\ k <= Len(newChunkLines)
  /\ \A i \in 1 .. k :
       normalizeLineForComparison(newChunkLines[i])
         = normalizeLineForComparison(merged[Len(merged) - k + i])

\* the example of the documentation
ExampleChunks == <<join(Window(1, 3)), join(Window(2, 4))>>

\* C19: when the first k >= 2 lines of the new chunk equal, normalised and in
\* the same order, the last k lines of the merged lines, findBestOverlap
\* returns k.  The first call of a merge gets the lines of the first chunk as
\* merged lines and the lines of the second chunk as new chunk.
C19_OverlapOfKReturnsK ==
  Len(overlaps) >= 1 =>
    \A k \in 2 .. MaxLines :
      overlapsBy(chunkLines[1], chunkLines[2], k) => overlaps[1] = k

\* what the code returns for the example: 1, from the fuzzy pass
C19_ExampleReturnsOne ==
  textChunks = ExampleChunks /\ overlaps = <<1>>

\* the exact pass finds an overlap only when it reads the same backwards
C19_RepeatedLinesReturnTwo ==
  /\ textChunks = <<join(<<Line(1), Line(7), Line(7)>>),
                    join(<<Line(7), Line(7), Line(2)>>)>>
  /\ overlaps = <<2>>

\* C20: when the second chunk begins with lines that repeat the end of the
\* first, the merged text holds the lines of the first chunk followed by the
\* lines of the second chunk after the overlap: every overlapping line once,
\* all lines in their order.
C20_OverlapMergedOnce ==
  (mpc = "returned" /\ Len(textChunks) = 2) =>
    \A k \in 1 .. MaxLines :
      (/\ overlapsBy(chunkLines[1], chunkLines[2], k)
       /\ \A j \in k + 1 .. MaxLines : ~overlapsBy(chunkLines[1], chunkLines[2], j))
        => mergedText = join(chunkLines[1] \o slice(chunkLines[2], k))

\* an overlap of one line is merged as documented
C20_OneLineOverlapMergedOnce ==
  (mpc = "returned" /\ Len(textChunks) = 2) =>
    ((/\ overlapsBy(chunkLines[1], chunkLines[2], 1)
      /\ \A j \in 2 .. MaxLines : ~overlapsBy(chunkLines[1], chunkLines[2], j))
       => mergedText = join(chunkLines[1] \o slice(chunkLines[2], 1)))

\* what the code returns for the example: "Line 3" twice
C20_ExampleRepeatsLine ==
  /\ textChunks = ExampleChunks /\ mpc = "returned"
  /\ mergedText = join(<<Line(1), Line(2), Line(3), Line(3), Line(4)>>)

\* the written files that are chunks
chunkFiles == {i \in 1 .. Len(written) : written[i].path # outputPath}

\* C21: every chunk file written is exactly targetWidth x targetHeight
\* pixels; a chunk whose content is shorter than targetHeight holds that
\* content at the top and white below it.
C21_ChunksOfTargetSize ==
  \A i \in chunkFiles :
    /\ written[i].width = call.targetWidth
    /\ written[i].height = call.targetHeight
    /\ written[i].content = written[i].rows.to - written[i].rows.from + 1
    /\ written[i].content < call.targetHeight => written[i].fill = "white"

\* a receipt of 896 x 1076 in chunk mode: the second chunk holds the 230
\* rows from 846 on and is padded to 896 rows
C21_ShortLastChunkPadded ==
  /\ call = [ShortTailCall EXCEPT !.height = 1076] /\ npc = "returned"
  /\ Len(written) = 2
  /\ written[2].rows = [from |-> 846, to |-> 1075]
  /\ written[2].content = 230 /\ written[2].fill = "white"
  /\ written[2].width = 896 /\ written[2].height = 896

\* a rotation has been applied in this run
rotationApplied == \E i \in 1 .. Len(stages) : stages[i] = "Rotated"

\* the mask of the image as it is now
maskOfImage ==
  [p \in Coords(image.width, image.height) |->
     isWhiteish(getPixelAt(image, p[1] + 1, p[2] + 1))]

\* C22: once a rotation has been applied, the bounds, the content scan and
\* the crop box come from a mask and an area recomputed on the rotated image
\* with its current dimensions: when the crop box is ready, the mask, the
\* visited map and the area are those of the rotated image, and the crop box
\* is the one computed from them.
C22_BoundsFromRotatedImage ==
  (pc = "crop" /\ rotationApplied) =>
    LET found == findLargestArea(maskOfImage, image.width, image.height)
    IN  /\ DOMAIN whiteMask = Coords(image.width, image.height)
        /\ whiteMask = maskOfImage
        /\ visited = found.visited
        /\ largestAreaPoints = found.largestAreaPoints
        /\ cropBounds =
             cropBoundsOf(whiteBounds(image, found.largestAreaPoints,
                                      image.width, image.height),
                          image.width, image.height)

\* a rotated image wider than the original one, with its area beyond the
\* original width: the crop box reaches columns the original image had not
C22_BoxBeyondOriginalWidth ==
  /\ pc = "crop" /\ rotationApplied
  /\ image.width > width /\ largestAreaPoints # << >>
  /\ cropBounds.right >= width /\ cropBounds.right > cropBounds.left

\* the 8-connected component of the mask that holds the masked pixel p
componentOf(p) ==
  LET cells == DOMAIN whiteMask
      RECURSIVE Grow(_, _)
      Grow(S, F) ==
        LET N == {q \in UNION {{<<r[1] + dx, r[2] + dy>> : dx \in -1 .. 1, dy \in -1 .. 1} : r \in F} :
                    q \in cells /\ whiteMask[q] /\ q \notin S}
        IN  IF N = {} THEN S ELSE Grow(S \cup N, N)
  IN  Grow({p}, {p})

\* the masked seeds, and the scan order: top to bottom, left to right
maskedSeeds ==
  {q \in DOMAIN whiteMask :
     q[1] % SeedStride = 0 /\ q[2] % SeedStride = 0 /\ whiteMask[q]}
scannedBefore(a, b) == a[2] < b[2] \/ (a[2] = b[2] /\ a[1] < b[1])

\* the seeds whose component has the maximum point count
largestSeeds ==
  {s \in maskedSeeds :
     \A t \in maskedSeeds : Cardinality(componentOf(t)) <= Cardinality(componentOf(s))}

\* C23: when several components share the maximum point count, the region
\* kept is the one whose seed comes first in the scan order: the region is
\* the component of the first of the seeds of the largest components.
C23_FirstOfEqualComponentsKept ==
  (pc \in {"evaluateRotation", "refineBounds"} /\ largestSeeds # {}) =>
    LET first == CHOOSE s \in largestSeeds :
                   \A t \in largestSeeds : t = s \/ scannedBefore(s, t)
    IN  {largestAreaPoints[i] : i \in 1 .. Len(largestAreaPoints)} = componentOf(first)

\* two white blocks of four pixels each, seeded at (0, 0) and at (5, 5): the
\* block at the top left is kept
C23_TwoEqualBlocks ==
  /\ pc = "evaluateRotation"
  /\ \E s \in largestSeeds : \E t \in largestSeeds : componentOf(s) # componentOf(t)
  /\ <<5, 5>> \in largestSeeds
  /\ {largestAreaPoints[i] : i \in 1 .. Len(largestAreaPoints)}
       = {<<0, 0>>, <<1, 0>>, <<0, 1>>, <<1, 1>>}

\* the areas of all the flood fills of one scan, in the order of the scan
RECURSIVE allAreas(_, _, _, _, _, _)
allAreas(seeds, i, mask, vis, w, h) ==
  IF i > Len(seeds) THEN << >>
  ELSE LET s == seeds[i]
       IN IF mask[s] /\ ~vis[s]
          THEN LET f == floodFill(s[1], s[2], mask, vis, w, h)
               IN  << f.areaPoints >> \o allAreas(seeds, i + 1, mask, f.visited, w, h)
          ELSE allAreas(seeds, i + 1, mask, vis, w, h)

\* the areas filled over the mask of the image as it is now
filledAreas ==
  allAreas(Seeds(0, image.width, image.height), 1, whiteMask,
           NoneVisited(image.width, image.height), image.width, image.height)

\* how often the pixel p was collected, over all the areas
timesCollected(areas, p) ==
  Cardinality({e \in UNION {{<<a, i>> : i \in 1 .. Len(areas[a])} : a \in 1 .. Len(areas)} :
                 areas[e[1]][e[2]] = p})

\* C24: across all flood fills over one mask each pixel is marked visited
\* and collected at most once: no pixel is in two areas, none is twice in
\* one area, and the pixels marked visited are the pixels collected.
C24_EachPixelCollectedOnce ==
  pc \in {"evaluateRotation", "refineBounds"} =>
    LET areas == filledAreas
    IN  \A p \in DOMAIN whiteMask :
          /\ timesCollected(areas, p) <= 1
          /\ visited[p] <=> timesCollected(areas, p) = 1

\* several flood fills have run over one mask, one of them over an area of
\* nine pixels or more, whose inner pixels were pushed by several neighbours
C24_SeveralAreasFilled ==
  /\ pc = "evaluateRotation"
  /\ Len(filledAreas) >= 2
  /\ \E a \in 1 .. Len(filledAreas) : Len(filledAreas[a]) >= 9

\* the bounding box of a non-empty set of points
boundingBox(S) ==
  [minX |-> CHOOSE v \in {p[1] : p \in S} : \A p \in S : v <= p[1],
   maxX |-> CHOOSE v \in {p[1] : p \in S} : \A p \in S : v >= p[1],
   minY |-> CHOOSE v \in {p[2] : p \in S} : \A p \in S : v <= p[2],
   maxY |-> CHOOSE v \in {p[2] : p \in S} : \A p \in S : v >= p[2]]

\* the points of the area, and those with a pixel of brightness below 200
\* among the pixel itself and its neighbours inside the image
areaPointSet == {largestAreaPoints[i] : i \in 1 .. Len(largestAreaPoints)}
contentPointSet ==
  {p \in areaPointSet :
     \E q \in DOMAIN image.px :
        /\ Abs(q[1] - p[1]) <= 1 /\ Abs(q[2] - p[2]) <= 1
        /\ image.px[q][1] + image.px[q][2] + image.px[q][3] < 600}

\* C25: when a point of the area has a pixel of brightness below 200 in its
\* 3 x 3 neighbourhood, the bounds before the padding are the bounding box
\* of the points that have one; when none has, they are the bounding box of
\* the whole area.  The crop box is the padded box of these bounds.
C25_ContentBoundsOrAreaBounds ==
  (pc = "crop" /\ areaPointSet # {}) =>
    LET b == whiteBounds(image, largestAreaPoints, image.width, image.height)
    IN  /\ b = (IF contentPointSet # {} THEN boundingBox(contentPointSet)
                ELSE boundingBox(areaPointSet))
        /\ cropBounds = cropBoundsOf(b, image.width, image.height)

\* an area whose content-bearing points lie strictly inside its bounding box
C25_ContentTighterThanArea ==
  /\ pc = "crop" /\ contentPointSet # {}
  /\ boundingBox(contentPointSet).minX > boundingBox(areaPointSet).minX
  /\ boundingBox(contentPointSet).maxX < boundingBox(areaPointSet).maxX
  /\ whiteBounds(image, largestAreaPoints, image.width, image.height)
       = boundingBox(contentPointSet)

\* an area of several points without any content: the bounds of the area
C25_NoContentAreaBounds ==
  /\ pc = "crop" /\ contentPointSet = {} /\ Cardinality(areaPointSet) > 1
  /\ whiteBounds(image, largestAreaPoints, image.width, image.height)
       = boundingBox(areaPointSet)

\* a sequence taken from its last element to its first
reversed(seq) == [k \in 1 .. Len(seq) |-> seq[Len(seq) + 1 - k]]

\* C26: each pixel the sharpening filter writes is computed only from the
\* snapshot taken before the filter wrote anything, so the sharpened image
\* does not depend on the order of the pixels: the image the filter leaves
\* is the one the turns leave when taken in the opposite order, and each of
\* its inner pixels is the value computed from the image before the filter.
C26_SharpenedFromSnapshot ==
  (pc = "contrast" /\ options.applySharpening) =>
    \E src \in cropSources :
      LET before == croppedFrom(src)
          order == sharpenOrder(before.width, before.height)
      IN  /\ image = sharpenInOrder(before, options.sharpeningStrength, reversed(order))
          /\ \A k \in 1 .. Len(order) :
               image.px[order[k]]
                 = sharpenTurn(before.px, before.px, order[k],
                               options.sharpeningStrength)[order[k]]
          /\ \A p \in DOMAIN image.px :
               (\A k \in 1 .. Len(order) : order[k] # p) => image.px[p] = before.px[p]

\* the filter changed two pixels next to each other: the second was computed
\* after the first had been written
C26_NeighboursBothRewritten ==
  /\ pc = "contrast" /\ options.applySharpening
  /\ \E src \in cropSources :
       LET before == croppedFrom(src)
       IN  \E p \in DOMAIN image.px :
             /\ <<p[1] + 1, p[2]>> \in DOMAIN image.px
             /\ image.px[p] # before.px[p]
             /\ image.px[<<p[1] + 1, p[2]>>] # before.px[<<p[1] + 1, p[2]>>]

\* the gradients and the histogram of the estimate that has just been made
estimateGradients ==
  collectGradients(image, largestAreaPoints, sampleStep(largestAreaPoints), width, height)
votedBins == DOMAIN angleBins(estimateGradients)

\* C27: every gradient angle is normalised into [0, 180) before it votes, so
\* every bucket of the histogram that receives weight, and the dominant
\* angle picked from the histogram, lies in [0, 180).
C27_BucketsBelow180 ==
  pc = "decideRotation" =>
    /\ \A b \in votedBins : 0 <= b /\ b < 180
    /\ rotationResult.dominantAngle < 180

\* what the code keeps: the buckets are the even numbers from 0 to 180, and
\* so is the dominant angle of an estimate that is made
C27_BucketsUpTo180 ==
  pc = "decideRotation" =>
    /\ \A b \in votedBins : 0 <= b /\ b <= 180 /\ b % binSize = 0
    /\ rotationResult.dominantAngle <= 180

\* a gradient whose angle lies in [179, 180) has voted for the bucket 180
C27_Bucket180Voted ==
  pc = "decideRotation" /\ 180 \in votedBins

\* the bucket 180 is the dominant one; the estimate makes it a rotation of 0
C27_Dominant180 ==
  /\ pc = "decideRotation" /\ rotationResult.dominantAngle = 180
  /\ rotationResult.method = "edge_gradient_analysis" /\ rotationResult.angle = 0
\* the probe asks for a pixel outside [0, width) x [0, height)
probeOutside ==
  probe.x < 0 \/ probe.x >= probe.image.width \/ probe.y < 0 \/ probe.y >= probe.image.height

\* C28: for coordinates outside [0, width) x [0, height) safeGetPixel returns
\* the sentinel 0x00000000 and makes no getPixelAt call; whatever the
\* coordinates, every getPixelAt call has its indices in 1..width and
\* 1..height, the call returns, and the image is left as it was
C28_SentinelOutsideNoBadRead ==
  /\ [](ppc # "call" =>
          /\ ppc = "returned"
          /\ pixelCalls \subseteq InBitmap(probe.image)
          /\ probeOutside => pixelResult = Transparent /\ pixelCalls = {}
          /\ ~probeOutside =>
                /\ pixelResult = probe.image.px[<<probe.x, probe.y>>]
                /\ pixelCalls = {<<probe.x + 1, probe.y + 1>>})
  /\ [][probe' = probe]_pixelVars

\* safeGetPixel returned for the pixel just past the right and bottom edges
C28_JustPastTheEdge ==
  /\ ppc = "returned"
  /\ probe.x = probe.image.width /\ probe.y = probe.image.height
  /\ probe.image.width = MaxProbe
  /\ pixelResult = Transparent /\ pixelCalls = {}

\* C29: for every non-negative chunkOverlap, values of targetHeight and more
\* included, normalizeWithChunking comes to an end (it returns or throws),
\* having written finitely many chunks
C29_ChunkingTerminates == <>(npc \in {"returned", "thrown"})

\* the loop of a call whose overlap equals the target height has taken
\* MaxTurns turns, written a chunk in each and has no last turn to reach
C29_LoopWithoutEnd ==
  /\ npc = "chunk" /\ call.chunkOverlap = call.targetHeight
  /\ totalChunks = Infinity /\ chunkIndex = MaxTurns /\ Len(written) = MaxTurns

\* a call whose overlap differs from the target height comes to an end
C29_TerminatesUnlessOverlapIsTarget ==
  <>(npc \in {"returned", "thrown"} \/ call.chunkOverlap = call.targetHeight)

\* the lines of the chunk being merged that the merge step leaves out
droppedLines ==
  LET currentChunk == chunkLines[mergeIndex + 1]
      overlapIndex == overlaps'[Len(overlaps')]
  IN  {currentChunk[i] : i \in 1 .. Min(Max(overlapIndex, 0), Len(currentChunk))}

\* C30: a line of a later chunk is left out of the merged output only if a
\* line equal to it after normalisation is already in the merged text; a
\* line without such a match is never dropped
C30_DroppedLinesHaveMatch ==
  [][(mpc = "merge" /\ mergeIndex' = mergeIndex + 1) =>
       \A line \in droppedLines :
         \E j \in 1 .. Len(mergedLines) :
           normalizeLineForComparison(mergedLines[j]) = normalizeLineForComparison(line)]_mergeVars

\* the merge of "Line 1", "---" with "Line 2", "Line 3" has returned without
\* "Line 2", which no merged line equals
C30_LineAfterRuleDropped ==
  /\ mpc = "returned"
  /\ textChunks = <<join(<<Line(1), Rule>>), join(<<Line(2), Line(3)>>)>>
  /\ overlaps = <<1>>
  /\ mergedText = join(<<Line(1), Rule, Line(3)>>)

====
